---------------------------- MODULE Spec2Model ----------------------------
(***************************************************************************)
(* Model of the GT-511C fingerprint sensor driver (fingerprint_gt511.c).   *)
(*                                                                         *)
(* The driver is sequential C code.  Its state is the shared packet buffer *)
(* (mempool), the locals of the functions on the call stack and the        *)
(* caller's storage for an id.  The environment is the application: the    *)
(* transport (GT511_SendMessage, GT511_ReceiveMessage), the timeout        *)
(* predicate (GT511_CheckTimeout) and the callbacks that return nothing    *)
(* (GT511_UserCallback, GT511_SetTimeout).  One action of the model is the *)
(* code that runs from one call into the environment that returns a value  *)
(* to the next such call.                                                  *)
(*                                                                         *)
(* A uint32_t is kept as its four bytes, least significant first, which is *)
(* how the packet structure lies in memory on the little-endian hosts the  *)
(* driver names (Cortex-M); 16-bit fields are numbers below 65536.         *)
(***************************************************************************)
EXTENDS Integers, Sequences, FiniteSets, TLC

VARIABLES
    mempool,     \* static uint8_t mempool[]: the shared packet buffer
    enumBytes,   \* sizeof(GT511_Error_t) of the build: 0 while not yet observed, else 2 or 4
    api,         \* the API function the application called ("none" before the call)
    status,      \* "idle", "running" or "returned"
    pc,          \* the position in the API function
    wpc,         \* the position in WaitFingerPress / WaitFingerRelease ("none" outside)
    tpc,         \* the position in IssueCommand ("idle" outside)
    command,     \* IssueCommand: the argument command
    pParameter,  \* IssueCommand: TRUE iff pParameter != NULL
    parm,        \* IssueCommand: the caller's uint32_t that pParameter points at
    parmIn,      \* the value of that uint32_t when IssueCommand was entered
    ok,          \* IssueCommand: what GT511_SendMessage returned
    respCount,   \* IssueCommand: what GT511_ReceiveMessage returned
    result,      \* IssueCommand: its return value, while tpc = "returned"
    err,         \* the API function's local err
    werr,        \* the waiter's local err
    mode,        \* the waiter's argument mode
    step,        \* GT511_RunEnroll: the loop variable step
    slot,        \* GT511_FindAvailable: the loop variable i
    id,          \* GT511_RunVerify: the argument id
    pIdValid,    \* TRUE iff the argument pId != NULL
    pId,         \* the caller's storage *pId
    pInfo,       \* GT511_Open: the caller's storage *pInfo (null: pInfo == NULL)
    ret,         \* the API function's return value, once status = "returned"
    trace,       \* every call into the application so far, in order
    detours,     \* the events so far that are off the straight path (see MaxDetours)
    sensorFree,  \* the free slots of the sensor GT511_FindAvailable is called against
    sensorClean, \* TRUE while every check-enrolled answer was that sensor's answer
    callers,     \* threads in IssueCommand at once: each one's position and locals
    wire,        \* threads in IssueCommand at once: the frames sent and not yet answered
    holds,       \* threads in IssueCommand at once: who wrote what into mempool last
    mutex,       \* TRUE iff the application calls the driver under a lock of its own
    holder       \* the thread that holds that lock (0: none)

vars == <<mempool, enumBytes, api, status, pc, wpc, tpc, command, pParameter, parm,
          parmIn, ok, respCount, result, err, werr, mode, step, slot, id, pIdValid,
          pId, pInfo, ret, trace, detours, sensorFree, sensorClean,
          callers, wire, holds, mutex, holder>>

\* the state of the threads that are in IssueCommand at once
concurrent == <<callers, wire, holds, mutex, holder>>

----------------------------------------------------------------------------
(* Numbers *)

Byte == 0..255

\* a uint32_t below 2^31 as its four bytes, least significant first
U32(n) == <<n % 256, (n \div 256) % 256, (n \div 65536) % 256, (n \div 16777216) % 256>>

\* the two bytes of a uint16_t, least significant first
U16Bytes(n) == <<n % 256, (n \div 256) % 256>>

\* the uint16_t stored in bytes lo, hi
U16(lo, hi) == lo + 256 * hi

\* !parm, for a uint32_t
IsZero32(p) == p = <<0, 0, 0, 0>>

----------------------------------------------------------------------------
(* Protocol constants *)

\* the default is 20; the build may define it
GT511_NUM_SLOTS == 3

GT511_CMD_OPEN == 1
GT511_CMD_CLOSE == 2
GT511_CMD_CMOS_LED == 18
GT511_CMD_GET_ENROLL_COUNT == 32
GT511_CMD_CHECK_ENROLLED == 33
GT511_CMD_ENROLL_START == 34
GT511_CMD_ENROLL1 == 35
GT511_CMD_ENROLL2 == 36
GT511_CMD_ENROLL3 == 37
GT511_CMD_IS_PRESS_FINGER == 38
GT511_CMD_DELETE_ID == 64
GT511_CMD_DELETE_ALL == 65
GT511_CMD_VERIFY == 80
GT511_CMD_IDENTIFY == 81
GT511_CMD_CAPTURE_FINGER == 96

GT511_RESP_ACK == 48
GT511_RESP_NACK == 49

\* sizeof(GT511_Packet_t): 1 + 1 + 2 + 4 + 2 + 2
PacketSize == 12

\* sizeof(mempool) = sizeof(GT511_DataPacket_t) + sizeof(GT511_Info_t) = 6 + 24
MempoolSize == 30

\* GT511_Error_t, as the uint32_t with the same value
GT511_ERR_NONE == U32(0)
GT511_ERR_INVALID_POS == U32(4099)
GT511_ERR_IS_NOT_USED == U32(4100)
GT511_ERR_IDENTIFY_FAILED == U32(4104)
GT511_ERR_BAD_FINGER == U32(4108)
GT511_ERR_OTHER_ERROR == U32(65535)

\* GT511_Mode_t and GT511_UserInfo_t
GT511_MODE_IDENTIFY == "IDENTIFY"
GT511_MODE_VERIFY == "VERIFY"
GT511_MODE_ENROLL == "ENROLL"
GT511_UI_PRESS == "PRESS"
GT511_UI_RELEASE == "RELEASE"
GT511_UI_TIMEOUT == "TIMEOUT"
GT511_UI_ACCEPT == "ACCEPT"
GT511_UI_REJECT == "REJECT"
GT511_UI_ERROR == "ERROR"

----------------------------------------------------------------------------
(* Packet codec *)

\* the fields of a GT511_Packet_t overlaid on a byte buffer
Start1(f) == f[1]
Start2(f) == f[2]
PacketId(f) == U16(f[3], f[4])
Parameter(f) == <<f[5], f[6], f[7], f[8]>>
Command(f) == U16(f[9], f[10])
PacketChecksum(f) == U16(f[11], f[12])

\* the loop of Checksum(): sum += *pBuf.  The uint32_t sum of at most MempoolSize
\* bytes is at most 30 * 255, so it never wraps
RECURSIVE SumBytes(_, _)
SumBytes(pBuf, length) ==
    IF length = 0 THEN 0 ELSE SumBytes(pBuf, length - 1) + pBuf[length]

\* a checksum that keeps the low byte of the sum only
ChecksumByte(pBuf, length) == SumBytes(pBuf, length) % 256

\* Checksum(): the uint32_t sum of the bytes, returned as a uint16_t
Checksum(pBuf, length) == SumBytes(pBuf, length) % 65536

\* the packet with the given fields
Packet(start1, start2, pid, parameter, cmd, checksum) ==
    <<start1, start2>> \o U16Bytes(pid) \o parameter \o U16Bytes(cmd) \o U16Bytes(checksum)

\* the packet with the given fields and the checksum of its first ten bytes
Summed(start1, start2, pid, parameter, cmd) ==
    Packet(start1, start2, pid, parameter, cmd,
           Checksum(<<start1, start2>> \o U16Bytes(pid) \o parameter \o U16Bytes(cmd),
                    PacketSize - 2))

\* the packet with the given fields and a checksum that is off by one
Unsummed(start1, start2, pid, parameter, cmd) ==
    Packet(start1, start2, pid, parameter, cmd,
           (Checksum(<<start1, start2>> \o U16Bytes(pid) \o parameter \o U16Bytes(cmd),
                     PacketSize - 2) + 1) % 65536)

\* a builder that leaves the checksum field 0
BuildCommandNoChecksum(cmd, hasParameter, parameter) ==
    Packet(85, 170, 1, IF hasParameter THEN parameter ELSE U32(0), cmd % 65536, 0)

\* IssueCommand, "Prepare a command packet"
BuildCommand(cmd, hasParameter, parameter) ==
    Summed(85, 170, 1, IF hasParameter THEN parameter ELSE U32(0), cmd % 65536)

ChecksumOk(pResp) == Checksum(pResp, PacketSize - 2) = PacketChecksum(pResp)
StartOk(pResp) == ~ ((Start1(pResp) # 85) \/ (Start2(pResp) # 170))
\* a validator that does not look at the id
IdOkAny(pResp) == TRUE

IdOk(pResp) == ~ (PacketId(pResp) # 1)
ResponseOk(pResp) ==
    ~ ((Command(pResp) # GT511_RESP_ACK) /\ (Command(pResp) # GT511_RESP_NACK))

IsValidResponse(pResp) ==
    IF ~ ChecksumOk(pResp) THEN FALSE
    ELSE IF ~ StartOk(pResp) THEN FALSE
    ELSE IF ~ IdOk(pResp) THEN FALSE
    ELSE IF ~ ResponseOk(pResp) THEN FALSE
    ELSE TRUE

\* the buffer after `bytes` were stored at its start
Store(buf, bytes) == bytes \o SubSeq(buf, Len(bytes) + 1, Len(buf))

\* the first n bytes of a sequence
Prefix(s, n) == SubSeq(s, 1, IF n < Len(s) THEN n ELSE Len(s))

----------------------------------------------------------------------------
(* Bounds and the environment's choices *)

\* the events of one run that are off the straight path: a press-state answer that
\* leaves a wait polling, a failed send, a receive of the wrong size
MaxDetours == 1

\* the parameters an ACK carries
EnvAckParameters == {U32(0), U32(1)}

\* the parameters a NACK carries: 0, a named error code, the value of
\* GT511_ERR_OTHER_ERROR, and a value above 16 bits that names no error code
EnvNackParameters == {U32(0), GT511_ERR_IS_NOT_USED, U32(65535), U32(65536)}

\* the frames the transport delivers: the ACKs, the NACKs, and for each check of
\* IsValidResponse a frame that fails that check alone
EnvFrames ==
    {Summed(85, 170, 1, p, GT511_RESP_ACK) : p \in EnvAckParameters}
    \cup {Summed(85, 170, 1, p, GT511_RESP_NACK) : p \in EnvNackParameters}
    \cup {Unsummed(85, 170, 1, U32(0), GT511_RESP_ACK),
          Summed(84, 170, 1, U32(0), GT511_RESP_ACK),
          Summed(85, 171, 1, U32(0), GT511_RESP_ACK),
          Summed(85, 170, 2, U32(0), GT511_RESP_ACK),
          Summed(85, 170, 1, U32(0), 50)}

\* the byte counts GT511_ReceiveMessage returns: the frame size, short, long
EnvCounts == {PacketSize, PacketSize - 1, PacketSize + 1}

\* what a receive of the wrong size stores: the start of an ACK, and a byte more
EnvPartial == Summed(85, 170, 1, U32(0), GT511_RESP_ACK) \o <<0>>

\* the data packets the transport delivers after an open command: a packet as the
\* sensor frames it, and 30 bytes that have neither its start bytes nor its
\* checksum
EnvInfoFrames ==
    {<<90, 165, 1, 0>> \o [k \in 1..24 |-> k] \o <<44, 2>>,
     <<0, 0, 0, 0>> \o [k \in 1..24 |-> 200 + k] \o <<0, 0>>}

\* what the application passes to GT511_Open: NULL, or its GT511_Info_t
EnvInfos ==
    {[null |-> n, firmwareVersion |-> U32(0), isoAreaMaxSize |-> U32(0),
      serialNumber |-> [k \in 1..16 |-> 0]] : n \in BOOLEAN}

\* the ids the application passes to GT511_RunVerify and the id commands
EnvIds == {U32(0), U32(19)}

\* what the caller's id storage holds before the call
PidInit == U32(57005)

----------------------------------------------------------------------------
(* The driver's control state as one record, and the calls it makes *)

Ctl ==
    [api |-> api, status |-> status, pc |-> pc, wpc |-> wpc, err |-> err, werr |-> werr,
     mode |-> mode, step |-> step, slot |-> slot, id |-> id, pIdValid |-> pIdValid,
     pId |-> pId, pInfo |-> pInfo, ret |-> ret, trace |-> trace, detours |-> detours,
     sensorFree |-> sensorFree, sensorClean |-> sensorClean,
     next |-> [kind |-> "return"]]

\* the function at position p calls IssueCommand(w.command, w.pParameter ? &parm : NULL)
Call(c, p, w) == [c EXCEPT !.pc = p, !.next = [kind |-> "call", w |-> w]]

\* the API function returns e to the application
Return(c, e) ==
    [c EXCEPT !.status = "returned", !.ret = e, !.wpc = "none", !.next = [kind |-> "return"]]

UserCallback(c, m, ui) ==
    [c EXCEPT !.trace = Append(@, [ev |-> "ui", mode |-> m, ui |-> ui])]

SetTimeout(c, m) == [c EXCEPT !.trace = Append(@, [ev |-> "settimeout", mode |-> m])]

\* the waiter calls GT511_CheckTimeout(mode) next
Poll(c, w) == [c EXCEPT !.wpc = w, !.next = [kind |-> "poll"]]

\* the waiter at position w calls IssueCommand
WaitCall(c, w, cmd) == [c EXCEPT !.wpc = w, !.next = [kind |-> "call", w |-> cmd]]

\* the waiter returns e to the API function that called it
WaitReturn(c, e) ==
    [c EXCEPT !.wpc = "none", !.werr = U32(0), !.next = [kind |-> "waitreturn", e |-> e]]

\* GT511_FindAvailable returns e to its caller
FindReturn(c, e) == [c EXCEPT !.slot = 0, !.next = [kind |-> "findreturn", e |-> e]]

----------------------------------------------------------------------------
(* The one-command functions: the command, whether a parameter is passed, its value *)

\* uint32_t parm = pInfo ? 1 : 0; IssueCommand(GT511_CMD_OPEN, &parm)
GT511_Open(info) ==
    [command |-> GT511_CMD_OPEN, pParameter |-> TRUE,
     parm |-> IF info THEN U32(1) ELSE U32(0)]

GT511_Close == [command |-> GT511_CMD_CLOSE, pParameter |-> FALSE, parm |-> U32(0)]

GT511_CmosLed(on) ==
    [command |-> GT511_CMD_CMOS_LED, pParameter |-> TRUE,
     parm |-> IF on THEN U32(1) ELSE U32(0)]

GT511_IsPressFinger ==
    [command |-> GT511_CMD_IS_PRESS_FINGER, pParameter |-> TRUE, parm |-> U32(0)]

\* *pIsPressed = !parm
IsPressed(p) == IsZero32(p)

GT511_CaptureFinger(highQuality) ==
    [command |-> GT511_CMD_CAPTURE_FINGER, pParameter |-> TRUE,
     parm |-> IF highQuality THEN U32(1) ELSE U32(0)]

GT511_Identify == [command |-> GT511_CMD_IDENTIFY, pParameter |-> TRUE, parm |-> U32(0)]

GT511_EnrollStart(i) == [command |-> GT511_CMD_ENROLL_START, pParameter |-> TRUE, parm |-> i]

GT511_Enroll1 == [command |-> GT511_CMD_ENROLL1, pParameter |-> FALSE, parm |-> U32(0)]

GT511_Enroll2 == [command |-> GT511_CMD_ENROLL2, pParameter |-> FALSE, parm |-> U32(0)]

GT511_Enroll3 == [command |-> GT511_CMD_ENROLL3, pParameter |-> FALSE, parm |-> U32(0)]

GT511_DeleteAll == [command |-> GT511_CMD_DELETE_ALL, pParameter |-> FALSE, parm |-> U32(0)]

GT511_DeleteID(i) == [command |-> GT511_CMD_DELETE_ID, pParameter |-> TRUE, parm |-> i]

GT511_GetEnrollCount ==
    [command |-> GT511_CMD_GET_ENROLL_COUNT, pParameter |-> TRUE, parm |-> U32(0)]

GT511_CheckEnrolled(i) ==
    [command |-> GT511_CMD_CHECK_ENROLLED, pParameter |-> TRUE, parm |-> i]

GT511_Verify(i) == [command |-> GT511_CMD_VERIFY, pParameter |-> TRUE, parm |-> i]

----------------------------------------------------------------------------
(* WaitFingerPress and WaitFingerRelease *)

\* entry, up to the first GT511_CheckTimeout
WaitFingerPress(c, m) ==
    Poll(SetTimeout(UserCallback([c EXCEPT !.mode = m], m, GT511_UI_PRESS), m), "PressCheck")

\* a waiter that queries the sensor whatever GT511_CheckTimeout returned
WaitFingerPressCheckIgnored(c, timeout) == WaitCall(c, "PressQuery", GT511_IsPressFinger)

\* GT511_CheckTimeout returned timeout
WaitFingerPressCheck(c, timeout) ==
    IF timeout
    THEN WaitReturn(UserCallback(c, c.mode, GT511_UI_TIMEOUT), GT511_ERR_OTHER_ERROR)
    ELSE WaitCall(c, "PressQuery", GT511_IsPressFinger)

\* a waiter that arms the timeout again each time the finger is not yet pressed
WaitFingerPressQueryRearm(c, e, p) ==
    IF e # GT511_ERR_NONE
    THEN WaitCall([c EXCEPT !.werr = e], "PressLedOff", GT511_CmosLed(FALSE))
    ELSE IF ~ IsPressed(p)
         THEN Poll(SetTimeout([c EXCEPT !.detours = @ + 1], c.mode), "PressCheck")
         ELSE WaitReturn(c, e)

\* GT511_IsPressFinger returned e, with p in its parm
WaitFingerPressQuery(c, e, p) ==
    IF e # GT511_ERR_NONE
    THEN WaitCall([c EXCEPT !.werr = e], "PressLedOff", GT511_CmosLed(FALSE))
    ELSE IF ~ IsPressed(p)
         THEN Poll([c EXCEPT !.detours = @ + 1], "PressCheck")
         ELSE WaitReturn(c, e)

\* a waiter that reports a failed query as a timeout
WaitFingerPressLedOffAsTimeout(c) ==
    WaitReturn(UserCallback(c, c.mode, GT511_UI_TIMEOUT), GT511_ERR_OTHER_ERROR)

\* GT511_CmosLed(false) returned, after the query failed
WaitFingerPressLedOff(c) ==
    WaitReturn(UserCallback(c, c.mode, GT511_UI_ERROR), c.werr)

WaitFingerRelease(c, m) ==
    Poll(SetTimeout(UserCallback([c EXCEPT !.mode = m], m, GT511_UI_RELEASE), m),
         "ReleaseCheck")

\* a release wait that polls on whatever the timeout predicate says
WaitFingerReleaseCheckForever(c, timeout) == WaitCall(c, "ReleaseQuery", GT511_IsPressFinger)

WaitFingerReleaseCheck(c, timeout) ==
    IF timeout
    THEN WaitReturn(UserCallback(c, c.mode, GT511_UI_TIMEOUT), GT511_ERR_OTHER_ERROR)
    ELSE WaitCall(c, "ReleaseQuery", GT511_IsPressFinger)

WaitFingerReleaseQuery(c, e, p) ==
    IF e # GT511_ERR_NONE
    THEN WaitCall([c EXCEPT !.werr = e], "ReleaseLedOff", GT511_CmosLed(FALSE))
    ELSE IF IsPressed(p)
         THEN Poll([c EXCEPT !.detours = @ + 1], "ReleaseCheck")
         ELSE WaitReturn(c, e)

WaitFingerReleaseLedOff(c) ==
    WaitReturn(UserCallback(c, c.mode, GT511_UI_ERROR), c.werr)

\* the waiter's step when the command it issued returned e, with p in its parm
WaitAfterCommand(c, e, p) ==
    CASE c.wpc = "PressQuery" -> WaitFingerPressQuery(c, e, p)
      [] c.wpc = "PressLedOff" -> WaitFingerPressLedOff(c)
      [] c.wpc = "ReleaseQuery" -> WaitFingerReleaseQuery(c, e, p)
      [] c.wpc = "ReleaseLedOff" -> WaitFingerReleaseLedOff(c)

\* the waiter's step when GT511_CheckTimeout returned
WaitAfterCheck(c, timeout) ==
    CASE c.wpc = "PressCheck" -> WaitFingerPressCheck(c, timeout)
      [] c.wpc = "ReleaseCheck" -> WaitFingerReleaseCheck(c, timeout)

----------------------------------------------------------------------------
(* GT511_FindAvailable *)

\* a scan that takes the slot whose check-enrolled command succeeded
SlotIsAvailableWhenUsed(e) == e = GT511_ERR_NONE

\* "if this slot is not used then return it as available"
SlotIsAvailable(e) == e = GT511_ERR_IS_NOT_USED

\* the loop head: for (i = ...; i < GT511_NUM_SLOTS; ...)
FindAvailableLoop(c, i) ==
    IF i < GT511_NUM_SLOTS
    THEN [c EXCEPT !.slot = i, !.next = [kind |-> "call", w |-> GT511_CheckEnrolled(U32(i))]]
    ELSE FindReturn(c, GT511_ERR_INVALID_POS)

\* entry
GT511_FindAvailable(c) ==
    IF ~ c.pIdValid
    THEN FindReturn(c, GT511_ERR_OTHER_ERROR)
    ELSE FindAvailableLoop(c, 0)

\* a scan that stores the index of the slot whose check failed
FindAvailableCheckedStoresSlot(c, e) ==
    IF SlotIsAvailable(e)
    THEN FindReturn([c EXCEPT !.pId = U32(c.slot)], GT511_ERR_NONE)
    ELSE IF e # GT511_ERR_NONE
         THEN FindReturn([c EXCEPT !.pId = U32(c.slot)], e)
         ELSE FindAvailableLoop(c, c.slot + 1)

\* IssueCommand(GT511_CMD_CHECK_ENROLLED, &parm) returned e for slot i
FindAvailableChecked(c, e) ==
    IF SlotIsAvailable(e)
    THEN FindReturn([c EXCEPT !.pId = U32(c.slot)], GT511_ERR_NONE)
    ELSE IF e # GT511_ERR_NONE
         THEN FindReturn(c, e)
         ELSE FindAvailableLoop(c, c.slot + 1)

----------------------------------------------------------------------------
(* GT511_RunIdentify *)

\* entry: "turn on the LED backlight"
GT511_RunIdentify(c) == Call(c, "LedOn", GT511_CmosLed(TRUE))

\* err = GT511_CmosLed(true) returned e
RunIdentifyLedOn(c, e) ==
    IF e # GT511_ERR_NONE
    THEN Call([c EXCEPT !.err = e], "LedOnFailOff", GT511_CmosLed(FALSE))
    ELSE WaitFingerPress([c EXCEPT !.err = e, !.pc = "WaitPress"], GT511_MODE_IDENTIFY)

\* the GT511_CmosLed(false) after the backlight did not turn on returned
RunIdentifyLedOnFailed(c) == Return(c, c.err)

\* err = WaitFingerPress(mode) returned e
RunIdentifyPressed(c, e) ==
    IF e # GT511_ERR_NONE
    THEN Call([c EXCEPT !.err = e], "PressFailOff", GT511_CmosLed(FALSE))
    ELSE Call([c EXCEPT !.err = e], "Capture", GT511_CaptureFinger(FALSE))

\* the GT511_CmosLed(false) after the press wait failed returned
RunIdentifyPressFailed(c) == Return(c, c.err)

\* an identification that leaves the illumination on when the capture failed
RunIdentifyCapturedLeftOn(c, e) ==
    IF e # GT511_ERR_NONE
    THEN Return(UserCallback([c EXCEPT !.err = e], GT511_MODE_IDENTIFY, GT511_UI_ERROR), e)
    ELSE Call([c EXCEPT !.err = e], "Identify", GT511_Identify)

\* err = GT511_CaptureFinger(false) returned e
RunIdentifyCaptured(c, e) ==
    IF e # GT511_ERR_NONE
    THEN Call([c EXCEPT !.err = e], "CaptureFailOff", GT511_CmosLed(FALSE))
    ELSE Call([c EXCEPT !.err = e], "Identify", GT511_Identify)

\* the GT511_CmosLed(false) after the capture failed returned
RunIdentifyCaptureFailed(c) == Return(UserCallback(c, GT511_MODE_IDENTIFY, GT511_UI_ERROR), c.err)

\* an identification that does not wait for the release
RunIdentifyIdentifiedNoRelease(c, e, p) ==
    IF e # GT511_ERR_NONE
    THEN Call([c EXCEPT !.err = e], "IdentifyFailOff", GT511_CmosLed(FALSE))
    ELSE Call([c EXCEPT !.err = e, !.pId = IF c.pIdValid THEN p ELSE @],
              "LedOff", GT511_CmosLed(FALSE))

\* err = GT511_Identify(&id) returned e, with p in the parameter it hands back
RunIdentifyIdentified(c, e, p) ==
    IF e # GT511_ERR_NONE
    THEN Call([c EXCEPT !.err = e], "IdentifyFailOff", GT511_CmosLed(FALSE))
    ELSE WaitFingerRelease(
             [c EXCEPT !.err = e, !.pc = "WaitRelease",
                      !.pId = IF c.pIdValid THEN p ELSE @],
             GT511_MODE_IDENTIFY)

\* an identification that reports a failed identify command as an error
RunIdentifyIdentifyFailedAsError(c) ==
    Return(UserCallback(c, GT511_MODE_IDENTIFY, GT511_UI_ERROR), c.err)

\* the GT511_CmosLed(false) after GT511_Identify(&id) failed returned
RunIdentifyIdentifyFailed(c) == Return(UserCallback(c, GT511_MODE_IDENTIFY, GT511_UI_REJECT), c.err)

\* err = WaitFingerRelease(mode) returned e
RunIdentifyReleased(c, e) ==
    IF e # GT511_ERR_NONE
    THEN Call([c EXCEPT !.err = e], "ReleaseFailOff", GT511_CmosLed(FALSE))
    ELSE Call([c EXCEPT !.err = e], "LedOff", GT511_CmosLed(FALSE))

\* an identification that notifies Reject after its release wait failed
RunIdentifyReleaseFailedRejects(c) ==
    Return(UserCallback(c, GT511_MODE_IDENTIFY, GT511_UI_REJECT), c.err)

\* the GT511_CmosLed(false) after the release wait failed returned
RunIdentifyReleaseFailed(c) == Return(c, c.err)

\* the last GT511_CmosLed(false) returned: "At this point the ID was successful"
RunIdentifyDone(c) == Return(UserCallback(c, GT511_MODE_IDENTIFY, GT511_UI_ACCEPT), c.err)

\* the command issued at position c.pc returned e, with p in its parm
RunIdentifyAfterCommand(c, e, p) ==
    CASE c.pc = "LedOn" -> RunIdentifyLedOn(c, e)
      [] c.pc = "LedOnFailOff" -> RunIdentifyLedOnFailed(c)
      [] c.pc = "PressFailOff" -> RunIdentifyPressFailed(c)
      [] c.pc = "Capture" -> RunIdentifyCaptured(c, e)
      [] c.pc = "CaptureFailOff" -> RunIdentifyCaptureFailed(c)
      [] c.pc = "Identify" -> RunIdentifyIdentified(c, e, p)
      [] c.pc = "IdentifyFailOff" -> RunIdentifyIdentifyFailed(c)
      [] c.pc = "ReleaseFailOff" -> RunIdentifyReleaseFailed(c)
      [] c.pc = "LedOff" -> RunIdentifyDone(c)

\* the waiter called at position c.pc returned e
RunIdentifyAfterWait(c, e) ==
    CASE c.pc = "WaitPress" -> RunIdentifyPressed(c, e)
      [] c.pc = "WaitRelease" -> RunIdentifyReleased(c, e)

----------------------------------------------------------------------------
(* GT511_RunVerify *)

\* entry: "turn on the LED backlight"
GT511_RunVerify(c) == Call(c, "LedOn", GT511_CmosLed(TRUE))

\* err = GT511_CmosLed(true) returned e
RunVerifyLedOn(c, e) ==
    IF e # GT511_ERR_NONE
    THEN Call([c EXCEPT !.err = e], "LedOnFailOff", GT511_CmosLed(FALSE))
    ELSE WaitFingerPress([c EXCEPT !.err = e, !.pc = "WaitPress"], GT511_MODE_VERIFY)

\* the GT511_CmosLed(false) after the backlight did not turn on returned
RunVerifyLedOnFailed(c) == Return(c, c.err)

\* a verification that returns from a failed press wait with the backlight left on
RunVerifyPressedLeftOn(c, e) ==
    IF e # GT511_ERR_NONE
    THEN Return([c EXCEPT !.err = e], e)
    ELSE Call([c EXCEPT !.err = e], "Capture", GT511_CaptureFinger(FALSE))

\* err = WaitFingerPress(mode) returned e
RunVerifyPressed(c, e) ==
    IF e # GT511_ERR_NONE
    THEN Call([c EXCEPT !.err = e], "PressFailOff", GT511_CmosLed(FALSE))
    ELSE Call([c EXCEPT !.err = e], "Capture", GT511_CaptureFinger(FALSE))

\* the GT511_CmosLed(false) after the press wait failed returned
RunVerifyPressFailed(c) == Return(c, c.err)

\* err = GT511_CaptureFinger(false) returned e
RunVerifyCaptured(c, e) ==
    IF e # GT511_ERR_NONE
    THEN Call([c EXCEPT !.err = e], "CaptureFailOff", GT511_CmosLed(FALSE))
    ELSE Call([c EXCEPT !.err = e], "Verify", GT511_Verify(c.id))

\* a verification that returns after a failed capture without a notification
RunVerifyCaptureFailedSilent(c) == Return(c, c.err)

\* the GT511_CmosLed(false) after the capture failed returned
RunVerifyCaptureFailed(c) == Return(UserCallback(c, GT511_MODE_VERIFY, GT511_UI_ERROR), c.err)

\* err = GT511_Verify(id) returned e, with p in the parameter it hands back
RunVerifyVerified(c, e, p) ==
    IF e # GT511_ERR_NONE
    THEN Call([c EXCEPT !.err = e], "VerifyFailOff", GT511_CmosLed(FALSE))
    ELSE WaitFingerRelease(
             [c EXCEPT !.err = e, !.pc = "WaitRelease"],
             GT511_MODE_VERIFY)

\* a verification that reports a failed verify command as an error
RunVerifyVerifyFailedAsError(c) ==
    Return(UserCallback(c, GT511_MODE_VERIFY, GT511_UI_ERROR), c.err)

\* the GT511_CmosLed(false) after GT511_Verify(id) failed returned
RunVerifyVerifyFailed(c) == Return(UserCallback(c, GT511_MODE_VERIFY, GT511_UI_REJECT), c.err)

\* err = WaitFingerRelease(mode) returned e
RunVerifyReleased(c, e) ==
    IF e # GT511_ERR_NONE
    THEN Call([c EXCEPT !.err = e], "ReleaseFailOff", GT511_CmosLed(FALSE))
    ELSE Call([c EXCEPT !.err = e], "LedOff", GT511_CmosLed(FALSE))

\* the GT511_CmosLed(false) after the release wait failed returned
RunVerifyReleaseFailed(c) == Return(c, c.err)

\* a verification that reports its success in the mode of the identification
RunVerifyDoneAsIdentify(c) ==
    Return(UserCallback(c, GT511_MODE_IDENTIFY, GT511_UI_ACCEPT), c.err)

\* the last GT511_CmosLed(false) returned: "At this point the ID was successful"
RunVerifyDone(c) == Return(UserCallback(c, GT511_MODE_VERIFY, GT511_UI_ACCEPT), c.err)

\* the command issued at position c.pc returned e, with p in its parm
RunVerifyAfterCommand(c, e, p) ==
    CASE c.pc = "LedOn" -> RunVerifyLedOn(c, e)
      [] c.pc = "LedOnFailOff" -> RunVerifyLedOnFailed(c)
      [] c.pc = "PressFailOff" -> RunVerifyPressFailed(c)
      [] c.pc = "Capture" -> RunVerifyCaptured(c, e)
      [] c.pc = "CaptureFailOff" -> RunVerifyCaptureFailed(c)
      [] c.pc = "Verify" -> RunVerifyVerified(c, e, p)
      [] c.pc = "VerifyFailOff" -> RunVerifyVerifyFailed(c)
      [] c.pc = "ReleaseFailOff" -> RunVerifyReleaseFailed(c)
      [] c.pc = "LedOff" -> RunVerifyDone(c)

\* the waiter called at position c.pc returned e
RunVerifyAfterWait(c, e) ==
    CASE c.pc = "WaitPress" -> RunVerifyPressed(c, e)
      [] c.pc = "WaitRelease" -> RunVerifyReleased(c, e)

----------------------------------------------------------------------------
(* GT511_RunEnroll *)

\* an enrollment of two steps
EnrollStepsTwo == 3 - 1

\* the number of enrollment steps: for (step = 0; step < 3; step++)
EnrollSteps == 3

\* an enrollment that issues the commands of its first two steps in the other order
EnrollCommandSwapped(s) ==
    IF s = 0 THEN GT511_Enroll2 ELSE IF s = 1 THEN GT511_Enroll1 ELSE GT511_Enroll3

\* "Issue the enrollment command based on the step in the sequence"
EnrollCommand(s) ==
    IF s = 0 THEN GT511_Enroll1 ELSE IF s = 1 THEN GT511_Enroll2 ELSE GT511_Enroll3

\* the loop head, with the loop variable at s; after the loop, "At this point the
\* enroll was successful"
RunEnrollLoop(c, s) ==
    IF s < EnrollSteps
    THEN Call([c EXCEPT !.step = s], "LedOn", GT511_CmosLed(TRUE))
    ELSE Return(UserCallback([c EXCEPT !.step = s], GT511_MODE_ENROLL, GT511_UI_ACCEPT),
                GT511_ERR_NONE)

\* entry: the argument check and the call of GT511_FindAvailable
GT511_RunEnroll(c) ==
    IF ~ c.pIdValid
    THEN Return(c, GT511_ERR_OTHER_ERROR)
    ELSE GT511_FindAvailable([c EXCEPT !.pc = "FindAvailable"])

\* err = GT511_FindAvailable(pId) returned e
RunEnrollAfterFind(c, e) ==
    IF e # GT511_ERR_NONE
    THEN Return(UserCallback([c EXCEPT !.err = e], GT511_MODE_ENROLL, GT511_UI_ERROR), e)
    ELSE Call([c EXCEPT !.err = e], "EnrollStart", GT511_EnrollStart(c.pId))

\* an enrollment that notifies Error when its enroll-start command failed
RunEnrollStartedNotifies(c, e) ==
    IF e # GT511_ERR_NONE
    THEN Return(UserCallback([c EXCEPT !.err = e], GT511_MODE_ENROLL, GT511_UI_ERROR), e)
    ELSE RunEnrollLoop([c EXCEPT !.err = e], 0)

\* err = GT511_EnrollStart(*pId) returned e
RunEnrollStarted(c, e) ==
    IF e # GT511_ERR_NONE
    THEN Return([c EXCEPT !.err = e], e)
    ELSE RunEnrollLoop([c EXCEPT !.err = e], 0)

\* err = GT511_CmosLed(true) returned e
RunEnrollLedOn(c, e) ==
    IF e # GT511_ERR_NONE
    THEN Call([c EXCEPT !.err = e], "LedOnFailOff", GT511_CmosLed(FALSE))
    ELSE WaitFingerPress([c EXCEPT !.err = e, !.pc = "WaitPress"], GT511_MODE_ENROLL)

\* the GT511_CmosLed(false) after the backlight did not turn on returned
RunEnrollLedOnFailed(c) == Return(c, c.err)

\* err = WaitFingerPress(GT511_MODE_ENROLL) returned e
RunEnrollPressed(c, e) ==
    IF e # GT511_ERR_NONE
    THEN Call([c EXCEPT !.err = e], "PressFailOff", GT511_CmosLed(FALSE))
    ELSE Call([c EXCEPT !.err = e], "Capture", GT511_CaptureFinger(TRUE))

\* the GT511_CmosLed(false) after the press wait failed returned
RunEnrollPressFailed(c) == Return(c, c.err)

\* an enrollment that goes on to the enrollment command after a failed capture
RunEnrollCapturedAnyway(c, e) ==
    Call([c EXCEPT !.err = e], "Enroll", EnrollCommand(c.step))

\* err = GT511_CaptureFinger(true) returned e
RunEnrollCaptured(c, e) ==
    IF e # GT511_ERR_NONE
    THEN Call([c EXCEPT !.err = e], "CaptureFailOff", GT511_CmosLed(FALSE))
    ELSE Call([c EXCEPT !.err = e], "Enroll", EnrollCommand(c.step))

\* an enrollment that reports a failed capture in the mode of the identification
RunEnrollCaptureFailedAsIdentify(c) ==
    Return(UserCallback(c, GT511_MODE_IDENTIFY, GT511_UI_ERROR), c.err)

\* the GT511_CmosLed(false) after the capture failed returned
RunEnrollCaptureFailed(c) ==
    Return(UserCallback(c, GT511_MODE_ENROLL, GT511_UI_ERROR), c.err)

\* err = GT511_Enroll1(), GT511_Enroll2() or GT511_Enroll3() returned e
RunEnrollEnrolled(c, e) ==
    IF e # GT511_ERR_NONE
    THEN Call(UserCallback([c EXCEPT !.err = e], GT511_MODE_ENROLL, GT511_UI_REJECT),
              "EnrollFailOff", GT511_CmosLed(FALSE))
    ELSE WaitFingerRelease([c EXCEPT !.err = e, !.pc = "WaitRelease"], GT511_MODE_ENROLL)

\* an enrollment that accepts after the failure of its enrollment command
RunEnrollEnrollFailedAccepts(c) ==
    Return(UserCallback(c, GT511_MODE_ENROLL, GT511_UI_ACCEPT), c.err)

\* the GT511_CmosLed(false) after the enrollment command failed returned
RunEnrollEnrollFailed(c) == Return(c, c.err)

\* err = WaitFingerRelease(GT511_MODE_ENROLL) returned e
RunEnrollReleased(c, e) ==
    IF e # GT511_ERR_NONE
    THEN Call([c EXCEPT !.err = e], "ReleaseFailOff", GT511_CmosLed(FALSE))
    ELSE Call([c EXCEPT !.err = e], "LedOff", GT511_CmosLed(FALSE))

\* the GT511_CmosLed(false) after the release wait failed returned
RunEnrollReleaseFailed(c) == Return(c, c.err)

\* the GT511_CmosLed(false) that ends a step returned: step++
RunEnrollStepDone(c) == RunEnrollLoop(c, c.step + 1)

\* an enrollment that stops when the illumination-off command that ends a step fails
RunEnrollAfterCommandChecked(c, e) ==
    IF c.pc = "LedOff" /\ e # GT511_ERR_NONE
    THEN Return([c EXCEPT !.err = e], e)
    ELSE CASE c.pc = "EnrollStart" -> RunEnrollStarted(c, e)
           [] c.pc = "LedOn" -> RunEnrollLedOn(c, e)
           [] c.pc = "LedOnFailOff" -> RunEnrollLedOnFailed(c)
           [] c.pc = "PressFailOff" -> RunEnrollPressFailed(c)
           [] c.pc = "Capture" -> RunEnrollCaptured(c, e)
           [] c.pc = "CaptureFailOff" -> RunEnrollCaptureFailed(c)
           [] c.pc = "Enroll" -> RunEnrollEnrolled(c, e)
           [] c.pc = "EnrollFailOff" -> RunEnrollEnrollFailed(c)
           [] c.pc = "ReleaseFailOff" -> RunEnrollReleaseFailed(c)
           [] c.pc = "LedOff" -> RunEnrollStepDone(c)

\* the command issued at position c.pc returned e
RunEnrollAfterCommand(c, e) ==
    CASE c.pc = "EnrollStart" -> RunEnrollStarted(c, e)
      [] c.pc = "LedOn" -> RunEnrollLedOn(c, e)
      [] c.pc = "LedOnFailOff" -> RunEnrollLedOnFailed(c)
      [] c.pc = "PressFailOff" -> RunEnrollPressFailed(c)
      [] c.pc = "Capture" -> RunEnrollCaptured(c, e)
      [] c.pc = "CaptureFailOff" -> RunEnrollCaptureFailed(c)
      [] c.pc = "Enroll" -> RunEnrollEnrolled(c, e)
      [] c.pc = "EnrollFailOff" -> RunEnrollEnrollFailed(c)
      [] c.pc = "ReleaseFailOff" -> RunEnrollReleaseFailed(c)
      [] c.pc = "LedOff" -> RunEnrollStepDone(c)

\* the waiter called at position c.pc returned e
RunEnrollAfterWait(c, e) ==
    CASE c.pc = "WaitPress" -> RunEnrollPressed(c, e)
      [] c.pc = "WaitRelease" -> RunEnrollReleased(c, e)

----------------------------------------------------------------------------
(* The one-command functions called by the application itself *)

ApiCommands ==
    [GT511_Close |-> GT511_Close,
     GT511_CmosLed |-> GT511_CmosLed(TRUE),
     GT511_CaptureFinger |-> GT511_CaptureFinger(TRUE),
     GT511_Identify |-> GT511_Identify,
     GT511_Enroll1 |-> GT511_Enroll1,
     GT511_DeleteAll |-> GT511_DeleteAll,
     GT511_GetEnrollCount |-> GT511_GetEnrollCount]

ApiIdCommands ==
    [GT511_EnrollStart |-> [i \in EnvIds |-> GT511_EnrollStart(i)],
     GT511_DeleteID |-> [i \in EnvIds |-> GT511_DeleteID(i)],
     GT511_CheckEnrolled |-> [i \in EnvIds |-> GT511_CheckEnrolled(i)],
     GT511_Verify |-> [i \in EnvIds |-> GT511_Verify(i)]]

\* the functions that hand the response parameter to the caller: *pId = parm
ReturnsParameter == {"GT511_Identify", "GT511_GetEnrollCount"}

\* IssueCommand returned e to the one-command function c.pc, with p in its parm
CommandAfterCommand(c, e, p) ==
    Return([c EXCEPT !.err = e,
                     !.pId = IF c.pc \in ReturnsParameter /\ c.pIdValid THEN p ELSE @],
           e)

----------------------------------------------------------------------------
(* GT511_Open *)

\* err = IssueCommand(GT511_CMD_OPEN, &parm) returned e: the return on an error,
\* and with "if (pInfo)" the receive of the data packet next
OpenAfterCommand(c, e) ==
    IF e # GT511_ERR_NONE
    THEN Return([c EXCEPT !.err = e], e)
    ELSE IF ~ c.pInfo.null
         THEN [c EXCEPT !.err = e, !.pc = "OpenInfo", !.next = [kind |-> "receive"]]
         ELSE Return([c EXCEPT !.err = e], GT511_ERR_NONE)

\* GT511_ReceiveMessage(pData, dataLength) returned dataCount: the check of the
\* count, and the copy of the GT511_Info_t at pData->payload to the caller's
OpenInfoReceived(c, pData, dataCount) ==
    IF dataCount # MempoolSize
    THEN Return(c, GT511_ERR_OTHER_ERROR)
    ELSE Return([c EXCEPT !.pInfo.firmwareVersion = SubSeq(pData, 5, 8),
                          !.pInfo.isoAreaMaxSize = SubSeq(pData, 9, 12),
                          !.pInfo.serialNumber = SubSeq(pData, 13, 28)],
                GT511_ERR_NONE)

----------------------------------------------------------------------------
(* Dispatch: the code that runs between two calls into the environment *)

ApiAfterCommand(c, e, p) ==
    CASE c.api = "RunIdentify" -> RunIdentifyAfterCommand(c, e, p)
      [] c.api = "RunVerify" -> RunVerifyAfterCommand(c, e, p)
      [] c.api = "RunEnroll" -> RunEnrollAfterCommand(c, e)
      [] c.api = "Command" -> CommandAfterCommand(c, e, p)
      [] c.api = "Open" -> OpenAfterCommand(c, e)

ApiAfterWait(c, e) ==
    CASE c.api = "RunIdentify" -> RunIdentifyAfterWait(c, e)
      [] c.api = "RunVerify" -> RunVerifyAfterWait(c, e)
      [] c.api = "RunEnroll" -> RunEnrollAfterWait(c, e)

ApiAfterFind(c, e) ==
    CASE c.api = "FindAvailable" -> Return(c, e)
      [] c.api = "RunEnroll" -> RunEnrollAfterFind(c, e)

\* a callee's return is followed at once by its caller's code
Finish(c) ==
    CASE c.next.kind = "waitreturn" -> ApiAfterWait(c, c.next.e)
      [] c.next.kind = "findreturn" -> ApiAfterFind(c, c.next.e)
      [] OTHER -> c

\* IssueCommand returned e, with p in the caller's parm
Resume(c, e, p) ==
    IF c.wpc # "none"
    THEN Finish(WaitAfterCommand(c, e, p))
    ELSE IF c.pc = "FindAvailable"
         THEN Finish(FindAvailableChecked(c, e))
         ELSE ApiAfterCommand(c, e, p)

\* the check-enrolled answer in the buffer, as the sensor gives it for a slot in
\* use (an ACK) and for a free slot (a NACK with "is not used"), when the command
\* went out and the answer came back whole
SensorSaysUsed ==
    /\ respCount = PacketSize /\ ok
    /\ Command(mempool) = GT511_RESP_ACK

SensorSaysFree ==
    /\ respCount = PacketSize /\ ok
    /\ Command(mempool) = GT511_RESP_NACK
    /\ Parameter(mempool) = GT511_ERR_IS_NOT_USED

\* a call of GT511_FindAvailable by the application runs against a sensor whose free
\* slots are sensorFree; sensorClean stays true while every answer is the one such
\* a sensor gives
Observed(c) ==
    IF c.api # "FindAvailable"
    THEN c
    ELSE [c EXCEPT !.sensorClean =
                       @ /\ IF c.slot \in c.sensorFree THEN SensorSaysFree
                                                        ELSE SensorSaysUsed]

\* the next state's control variables are those of c
Apply(c) ==
    /\ api' = c.api
    /\ status' = c.status
    /\ pc' = c.pc
    /\ wpc' = c.wpc
    /\ err' = c.err
    /\ werr' = c.werr
    /\ mode' = c.mode
    /\ step' = c.step
    /\ slot' = c.slot
    /\ id' = c.id
    /\ pIdValid' = c.pIdValid
    /\ pId' = c.pId
    /\ pInfo' = c.pInfo
    /\ ret' = c.ret
    /\ trace' = c.trace
    /\ detours' = c.detours
    /\ sensorFree' = c.sensorFree
    /\ sensorClean' = c.sensorClean
    /\ tpc' = IF c.next.kind = "call" THEN "call" ELSE "idle"
    /\ command' = IF c.next.kind = "call" THEN c.next.w.command ELSE 0
    /\ pParameter' = IF c.next.kind = "call" THEN c.next.w.pParameter ELSE FALSE
    /\ parm' = IF c.next.kind = "call" THEN c.next.w.parm ELSE U32(0)
    /\ parmIn' = IF c.next.kind = "call" THEN c.next.w.parm ELSE U32(0)
    /\ ok' = FALSE
    /\ respCount' = 0
    /\ result' = GT511_ERR_NONE
    /\ UNCHANGED concurrent

----------------------------------------------------------------------------
(* IssueCommand *)

\* (GT511_Error_t)pResp->parameter: the enumerated type is as wide as the compiler
\* makes it (two bytes hold every enumerator), and the conversion keeps that many
\* bytes of the parameter
NackError(width, parameter) ==
    <<parameter[1], parameter[2],
      IF width >= 3 THEN parameter[3] ELSE 0, IF width >= 4 THEN parameter[4] ELSE 0>>

\* a transactor that hands the parameter of an invalid frame to its caller
IssueCommandResponseWritesInvalid(pResp, hasParameter, parameter, width) ==
    IF ~ IsValidResponse(pResp)
    THEN [err |-> GT511_ERR_OTHER_ERROR,
          parm |-> IF hasParameter THEN Parameter(pResp) ELSE parameter]
    ELSE IF Command(pResp) = GT511_RESP_NACK
         THEN [err |-> NackError(width, Parameter(pResp)), parm |-> parameter]
         ELSE [err |-> GT511_ERR_NONE,
               parm |-> IF hasParameter THEN Parameter(pResp) ELSE parameter]

\* the return value and the caller's parm after a response of full size
IssueCommandResponse(pResp, hasParameter, parameter, width) ==
    IF ~ IsValidResponse(pResp)
    THEN [err |-> GT511_ERR_OTHER_ERROR, parm |-> parameter]
    ELSE IF Command(pResp) = GT511_RESP_NACK
         THEN [err |-> NackError(width, Parameter(pResp)), parm |-> parameter]
         ELSE [err |-> GT511_ERR_NONE,
               parm |-> IF hasParameter THEN Parameter(pResp) ELSE parameter]

\* the frame would leave the waiter polling
LeavesPolling(f) ==
    LET r == IssueCommandResponse(f, pParameter, parm, enumBytes)
    IN /\ r.err = GT511_ERR_NONE
       /\ \/ wpc = "PressQuery" /\ ~ IsPressed(r.parm)
          \/ wpc = "ReleaseQuery" /\ IsPressed(r.parm)

\* "Prepare a command packet"
IssueBuild ==
    /\ tpc = "call"
    /\ mempool' = Store(mempool, BuildCommand(command, pParameter, parm))
    /\ tpc' = "built"
    /\ UNCHANGED <<enumBytes, api, status, pc, wpc, command, pParameter, parm, parmIn, ok,
                   respCount, result, err, werr, mode, step, slot, id, pIdValid, pId, ret,
                   trace, detours, sensorFree, sensorClean, concurrent, pInfo>>

\* a transactor that goes on to receive after a send that failed
IssueSendAnyway ==
    /\ tpc = "built"
    /\ \E sent \in BOOLEAN :
          /\ ~ sent => detours < MaxDetours
          /\ detours' = IF sent THEN detours ELSE detours + 1
          /\ ok' = sent
          /\ trace' = Append(trace, [ev |-> "send", frame |-> Prefix(mempool, PacketSize),
                                     length |-> PacketSize, ok |-> sent])
          /\ tpc' = "sent"
          /\ result' = result
    /\ UNCHANGED <<mempool, enumBytes, api, status, pc, wpc, command, pParameter, parm,
                   parmIn, respCount, err, werr, mode, step, slot, id, pIdValid, pId, ret,
                   sensorFree, sensorClean, concurrent, pInfo>>

\* "Send the prepared command and check for send error"
IssueSend ==
    /\ tpc = "built"
    /\ \E sent \in BOOLEAN :
          /\ ~ sent => detours < MaxDetours
          /\ detours' = IF sent THEN detours ELSE detours + 1
          /\ ok' = sent
          /\ trace' = Append(trace, [ev |-> "send", frame |-> Prefix(mempool, PacketSize),
                                     length |-> PacketSize, ok |-> sent])
          /\ tpc' = IF sent THEN "sent" ELSE "returned"
          /\ result' = IF sent THEN result ELSE GT511_ERR_OTHER_ERROR
    /\ UNCHANGED <<mempool, enumBytes, api, status, pc, wpc, command, pParameter, parm,
                   parmIn, respCount, err, werr, mode, step, slot, id, pIdValid, pId, ret,
                   sensorFree, sensorClean, concurrent, pInfo>>

\* "Try to receive a response packet"
IssueReceive ==
    /\ tpc = "sent"
    /\ \E count \in EnvCounts, f \in EnvFrames :
          /\ count = PacketSize /\ detours >= MaxDetours => ~ LeavesPolling(f)
          /\ count # PacketSize => detours < MaxDetours /\ f = Prefix(EnvPartial, PacketSize)
          /\ detours' = IF count = PacketSize THEN detours ELSE detours + 1
          /\ mempool' = Store(mempool, Prefix(IF count = PacketSize THEN f ELSE EnvPartial,
                                               count))
          /\ respCount' = count
          /\ trace' = Append(trace, [ev |-> "recv", length |-> PacketSize, count |-> count])
          /\ tpc' = IF count # PacketSize THEN "returned" ELSE "received"
          /\ result' = IF count # PacketSize THEN GT511_ERR_OTHER_ERROR ELSE result
    /\ UNCHANGED <<enumBytes, api, status, pc, wpc, command, pParameter, parm, parmIn, ok,
                   err, werr, mode, step, slot, id, pIdValid, pId, ret, sensorFree,
                   sensorClean, concurrent, pInfo>>

\* "We got a response, so now validate it", and the ACK / NACK decision
IssueValidate ==
    /\ tpc = "received"
    /\ LET r == IssueCommandResponse(mempool, pParameter, parm, enumBytes)
       IN /\ ok' = IsValidResponse(mempool)
          /\ result' = r.err
          /\ parm' = r.parm
    /\ tpc' = "returned"
    /\ UNCHANGED <<mempool, enumBytes, api, status, pc, wpc, command, pParameter, parmIn,
                   respCount, err, werr, mode, step, slot, id, pIdValid, pId, ret, trace,
                   detours, sensorFree, sensorClean, concurrent, pInfo>>

\* IssueCommand returns, and its caller runs up to its next call into the environment
IssueReturn ==
    /\ tpc = "returned"
    /\ Apply(Resume(Observed(Ctl), result, parm))
    /\ UNCHANGED <<mempool, enumBytes>>

----------------------------------------------------------------------------
(* The waiter's poll of the timeout *)

CheckTimeout ==
    /\ status = "running" /\ tpc = "idle"
    /\ wpc \in {"PressCheck", "ReleaseCheck"}
    /\ \E timeout \in BOOLEAN :
          Apply(Finish(WaitAfterCheck(
              [Ctl EXCEPT !.trace = Append(@, [ev |-> "checktimeout", mode |-> mode,
                                               timeout |-> timeout])],
              timeout)))
    /\ UNCHANGED <<mempool, enumBytes>>

----------------------------------------------------------------------------
(* The application's calls *)

Entered(name, valid, i) ==
    [Ctl EXCEPT !.api = name, !.status = "running", !.pIdValid = valid, !.id = i]

CallRunIdentify ==
    /\ status = "idle"
    /\ \E valid \in BOOLEAN :
          Apply(Finish(GT511_RunIdentify(Entered("RunIdentify", valid, id))))
    /\ UNCHANGED <<mempool, enumBytes>>

CallRunVerify ==
    /\ status = "idle"
    /\ \E i \in EnvIds : Apply(Finish(GT511_RunVerify(Entered("RunVerify", TRUE, i))))
    /\ UNCHANGED <<mempool, enumBytes>>

CallRunEnroll ==
    /\ status = "idle"
    /\ \E valid \in BOOLEAN :
          Apply(Finish(GT511_RunEnroll(Entered("RunEnroll", valid, id))))
    /\ UNCHANGED <<mempool, enumBytes>>

CallFindAvailable ==
    /\ status = "idle"
    /\ \E valid \in BOOLEAN, free \in SUBSET (0..(GT511_NUM_SLOTS - 1)) :
          Apply(Finish(GT511_FindAvailable(
              [Entered("FindAvailable", valid, id) EXCEPT !.pc = "FindAvailable",
                                                          !.sensorFree = free])))
    /\ UNCHANGED <<mempool, enumBytes>>

CallCommand ==
    /\ status = "idle"
    /\ \E name \in DOMAIN ApiCommands, valid \in BOOLEAN :
          Apply(Call(Entered("Command", valid, id), name, ApiCommands[name]))
    /\ UNCHANGED <<mempool, enumBytes>>

CallIdCommand ==
    /\ status = "idle"
    /\ \E name \in DOMAIN ApiIdCommands, i \in EnvIds :
          Apply(Call(Entered("Command", TRUE, i), name, ApiIdCommands[name][i]))
    /\ UNCHANGED <<mempool, enumBytes>>

CallOpen ==
    /\ status = "idle"
    /\ \E info \in EnvInfos :
          Apply(Call([Entered("Open", TRUE, id) EXCEPT !.pInfo = info], "Open",
                     GT511_Open(~ info.null)))
    /\ UNCHANGED <<mempool, enumBytes>>

\* GT511_Open: "Receive a data packet containing the extra info", and the rest of
\* the function
OpenReceive ==
    /\ status = "running" /\ api = "Open" /\ pc = "OpenInfo" /\ tpc = "idle"
    /\ \E dataCount \in {MempoolSize, MempoolSize - 1, PacketSize}, f \in EnvInfoFrames :
          /\ mempool' = Store(mempool, Prefix(f, dataCount))
          /\ Apply(OpenInfoReceived(
                 [Ctl EXCEPT !.trace = Append(@, [ev |-> "recv", length |-> MempoolSize,
                                                  count |-> dataCount])],
                 mempool', dataCount))
    /\ UNCHANGED enumBytes

----------------------------------------------------------------------------
(* The specification *)

\* no thread is in IssueCommand
NoCaller == 0

NotWritten == [who |-> NoCaller, what |-> "nothing", for |-> <<>>]

CallerIdle ==
    [tpc |-> "idle", command |-> 0, pParameter |-> FALSE, parm |-> U32(0),
     built |-> <<>>, result |-> GT511_ERR_NONE, validated |-> NotWritten]

Callers == {1, 2}

InitDriver ==
    /\ mempool = [k \in 1..MempoolSize |-> 0]
    /\ enumBytes \in {2, 4}
    /\ api = "none"
    /\ status = "idle"
    /\ pc = "none"
    /\ wpc = "none"
    /\ tpc = "idle"
    /\ command = 0
    /\ pParameter = FALSE
    /\ parm = U32(0)
    /\ parmIn = U32(0)
    /\ ok = FALSE
    /\ respCount = 0
    /\ result = GT511_ERR_NONE
    /\ err = GT511_ERR_NONE
    /\ werr = GT511_ERR_NONE
    /\ mode = "IDLE"
    /\ step = 0
    /\ slot = 0
    /\ id = U32(0)
    /\ pIdValid = TRUE
    /\ pId = PidInit
    /\ pInfo \in {info \in EnvInfos : info.null}
    /\ ret = GT511_ERR_NONE
    /\ trace = <<>>
    /\ detours = 0
    /\ sensorFree = {}
    /\ sensorClean = TRUE
    /\ callers = [t \in Callers |-> CallerIdle]
    /\ wire = <<>>
    /\ holds = NotWritten
    /\ holder = NoCaller

\* one thread calls the driver: no lock is needed, and none is taken
Init == InitDriver /\ mutex = FALSE

Next ==
    \/ CallRunIdentify
    \/ CallRunVerify
    \/ CallRunEnroll
    \/ CallFindAvailable
    \/ CallCommand
    \/ CallIdCommand
    \/ CallOpen
    \/ IssueBuild
    \/ IssueSend
    \/ IssueReceive
    \/ IssueValidate
    \/ IssueReturn
    \/ CheckTimeout
    \/ OpenReceive

Spec == Init /\ [][Next]_vars

----------------------------------------------------------------------------
(* The codec on its own: a frame is built as IssueCommand builds it, or     *)
(* received, and validated; an accepted frame then has one byte changed and *)
(* is validated again                                                       *)

\* the command codes handed to the builder: the commands of the driver, the two
\* response codes, and codes that are none of them
CodecCommands ==
    {GT511_CMD_OPEN, GT511_CMD_CLOSE, GT511_CMD_CMOS_LED, GT511_CMD_GET_ENROLL_COUNT,
     GT511_CMD_CHECK_ENROLLED, GT511_CMD_ENROLL_START, GT511_CMD_ENROLL1,
     GT511_CMD_ENROLL2, GT511_CMD_ENROLL3, GT511_CMD_IS_PRESS_FINGER,
     GT511_CMD_DELETE_ID, GT511_CMD_DELETE_ALL, GT511_CMD_VERIFY, GT511_CMD_IDENTIFY,
     GT511_CMD_CAPTURE_FINGER, GT511_RESP_ACK, GT511_RESP_NACK, 0, 304, 65535}

\* the parameters handed to the builder
CodecParameters == {U32(0), U32(1), U32(4100), <<0, 0, 1, 0>>, <<255, 255, 255, 255>>}

\* the frames handed to the validator: every mix of right and wrong start bytes,
\* id, code and checksum
CodecFrames ==
    {[g EXCEPT ![11] = (@ + d[1]) % 256, ![12] = (@ + d[2]) % 256] :
        g \in {Summed(s1, s2, i, p, c) :
                  s1 \in {85, 84}, s2 \in {170, 171}, i \in {1, 2, 257},
                  p \in {U32(0), <<255, 255, 255, 255>>},
                  c \in {GT511_RESP_ACK, GT511_RESP_NACK, 50, 304}},
        d \in {<<0, 0>>, <<1, 0>>, <<0, 1>>}}

codecRest ==
    <<enumBytes, status, wpc, tpc, parmIn, respCount, result, err, werr, mode, step, slot,
      id, pIdValid, pId, ret, trace, detours, sensorFree, sensorClean, concurrent, pInfo>>

\* IssueCommand, "Prepare a command packet", for any command and parameter
CodecBuild ==
    /\ pc = "none"
    /\ \E cmd \in CodecCommands, has \in BOOLEAN, p \in CodecParameters :
          /\ ~ has => p = U32(0)
          /\ command' = cmd
          /\ pParameter' = has
          /\ parm' = p
          /\ mempool' = Store(mempool, BuildCommand(cmd, has, p))
    /\ api' = "BuildCommand"
    /\ pc' = "built"
    /\ UNCHANGED <<ok, codecRest>>

\* GT511_ReceiveMessage stores a frame of full size in the buffer
CodecReceive ==
    /\ pc = "none"
    /\ \E f \in CodecFrames : mempool' = Store(mempool, f)
    /\ api' = "ReceiveMessage"
    /\ pc' = "received"
    /\ UNCHANGED <<command, pParameter, parm, ok, codecRest>>

\* ok = IsValidResponse(pResp)
CodecValidate ==
    /\ pc \in {"built", "received", "corrupted"}
    /\ ok' = IsValidResponse(mempool)
    /\ pc' = IF pc = "corrupted" THEN "checked" ELSE "validated"
    /\ UNCHANGED <<mempool, api, command, pParameter, parm, codecRest>>

\* one byte of an accepted frame takes another value
CodecCorrupt ==
    /\ pc = "validated" /\ ok
    /\ \E k \in 1..PacketSize, v \in Byte :
          /\ v # mempool[k]
          /\ mempool' = [mempool EXCEPT ![k] = v]
    /\ pc' = "corrupted"
    /\ UNCHANGED <<api, command, pParameter, parm, ok, codecRest>>

NextCodec ==
    \/ CodecBuild
    \/ CodecReceive
    \/ CodecValidate
    \/ CodecCorrupt

SpecCodec == Init /\ [][NextCodec]_vars

----------------------------------------------------------------------------
(* Two threads of the application in IssueCommand at once.  The driver has one
   mempool and takes no lock; the application either calls the driver under a lock
   of its own (mutex) or does not.  The sensor answers the frames it is sent in
   the order it gets them. *)

\* the commands the threads issue
ConcCommands == {GT511_CmosLed(TRUE), GT511_IsPressFinger}

\* the variables of the one-thread driver, which stay as they are
driverRest ==
    <<enumBytes, api, status, pc, wpc, tpc, command, pParameter, parm, parmIn, ok,
      respCount, result, err, werr, mode, step, slot, id, pIdValid, pId, pInfo, ret,
      trace, detours, sensorFree, sensorClean>>

\* an application that locks enters the driver with the lock free: never
CallerMayEnterAlways(t) == TRUE

\* an application that locks enters the driver only with the lock free
CallerMayEnter(t) == mutex => holder = NoCaller

\* thread t calls IssueCommand(w.command, w.pParameter ? &parm : NULL)
ConcCall(t) ==
    /\ callers[t].tpc = "idle"
    /\ CallerMayEnter(t)
    /\ \E w \in ConcCommands :
          callers' = [callers EXCEPT ![t] =
                         [CallerIdle EXCEPT !.tpc = "call", !.command = w.command,
                                            !.pParameter = w.pParameter, !.parm = w.parm]]
    /\ holder' = IF mutex THEN t ELSE holder
    /\ UNCHANGED <<mempool, wire, holds, mutex, driverRest>>

\* thread t: "Prepare a command packet"
ConcBuild(t) ==
    /\ callers[t].tpc = "call"
    /\ LET pCmd == BuildCommand(callers[t].command, callers[t].pParameter, callers[t].parm)
       IN /\ mempool' = Store(mempool, pCmd)
          /\ holds' = [who |-> t, what |-> "command", for |-> pCmd]
          /\ callers' = [callers EXCEPT ![t].tpc = "built", ![t].built = pCmd]
    /\ UNCHANGED <<wire, mutex, holder, driverRest>>

\* thread t: "Send the prepared command and check for send error"
ConcSend(t) ==
    /\ callers[t].tpc = "built"
    /\ \E sent \in BOOLEAN :
          /\ wire' = IF sent THEN Append(wire, Prefix(mempool, PacketSize)) ELSE wire
          /\ callers' = [callers EXCEPT
                            ![t].tpc = IF sent THEN "sent" ELSE "returned",
                            ![t].result = IF sent THEN @ ELSE GT511_ERR_OTHER_ERROR]
    /\ UNCHANGED <<mempool, holds, mutex, holder, driverRest>>

\* thread t: "Try to receive a response packet".  The answer that arrives is the
\* answer to the oldest frame not yet answered; nothing arrives when there is none
ConcReceive(t) ==
    /\ callers[t].tpc = "sent"
    /\ IF wire = <<>>
       THEN /\ callers' = [callers EXCEPT ![t].tpc = "returned",
                                          ![t].result = GT511_ERR_OTHER_ERROR]
            /\ UNCHANGED <<mempool, wire, holds>>
       ELSE \E count \in EnvCounts, f \in EnvFrames :
               /\ count # PacketSize => f = Prefix(EnvPartial, PacketSize)
               /\ mempool' = Store(mempool,
                                   Prefix(IF count = PacketSize THEN f ELSE EnvPartial, count))
               /\ holds' = [who |-> t, what |-> "response", for |-> Head(wire)]
               /\ wire' = Tail(wire)
               /\ callers' = [callers EXCEPT
                                 ![t].tpc = IF count = PacketSize THEN "received"
                                                                  ELSE "returned",
                                 ![t].result = IF count = PacketSize
                                               THEN @ ELSE GT511_ERR_OTHER_ERROR]
    /\ UNCHANGED <<mutex, holder, driverRest>>

\* thread t: "We got a response, so now validate it", and the ACK / NACK decision
ConcValidate(t) ==
    /\ callers[t].tpc = "received"
    /\ LET r == IssueCommandResponse(mempool, callers[t].pParameter, callers[t].parm,
                                     enumBytes)
       IN callers' = [callers EXCEPT ![t].tpc = "returned", ![t].result = r.err,
                                     ![t].parm = r.parm, ![t].validated = holds]
    /\ UNCHANGED <<mempool, wire, holds, mutex, holder, driverRest>>

\* thread t: IssueCommand returns, and an application that locks frees the lock
ConcReturn(t) ==
    /\ callers[t].tpc = "returned"
    /\ callers' = [callers EXCEPT ![t] = CallerIdle]
    /\ holder' = IF mutex THEN NoCaller ELSE holder
    /\ UNCHANGED <<mempool, wire, holds, mutex, driverRest>>

InitConc == InitDriver /\ mutex \in BOOLEAN

NextConc ==
    \/ \E t \in Callers : ConcCall(t)
    \/ \E t \in Callers : ConcBuild(t)
    \/ \E t \in Callers : ConcSend(t)
    \/ \E t \in Callers : ConcReceive(t)
    \/ \E t \in Callers : ConcValidate(t)
    \/ \E t \in Callers : ConcReturn(t)

SpecConc == InitConc /\ [][NextConc]_vars

----------------------------------------------------------------------------
(* The workflows with no bound on the polling.  Of the record of the calls only
   the last call is kept, so that a wait that polls on stays in finitely many
   states; the transaction of IssueCommand is one step.  Every call into the environment
   returns, and a timeout predicate that is polled again and again returns true
   at some poll. *)

\* c with only the last call of its record
LastOnly(c) ==
    [c EXCEPT !.trace = IF @ = <<>> THEN <<>> ELSE <<@[Len(@)]>>, !.detours = 0]

\* IssueCommand from its call to its return statement
LiveIssueCommand ==
    /\ tpc = "call"
    /\ \E sent \in BOOLEAN, count \in EnvCounts, f \in EnvFrames :
          /\ ~ sent => count = PacketSize /\ f = Prefix(EnvPartial, PacketSize)
          /\ count # PacketSize => f = Prefix(EnvPartial, PacketSize)
          /\ \E pCmd \in {Store(mempool, BuildCommand(command, pParameter, parm))} :
             \E pResp \in {Store(pCmd, Prefix(IF count = PacketSize THEN f ELSE EnvPartial,
                                              count))} :
             \E r \in {IF sent /\ count = PacketSize
                       THEN IssueCommandResponse(pResp, pParameter, parm, enumBytes)
                       ELSE [err |-> GT511_ERR_OTHER_ERROR, parm |-> parm]} :
              /\ mempool' = IF sent THEN pResp ELSE pCmd
              /\ ok' = (sent /\ count = PacketSize /\ IsValidResponse(pResp))
              /\ respCount' = IF sent THEN count ELSE 0
              /\ result' = r.err
              /\ parm' = r.parm
              /\ trace' = <<[ev |-> "send", frame |-> Prefix(pCmd, PacketSize),
                             length |-> PacketSize, ok |-> sent]>>
    /\ tpc' = "returned"
    /\ UNCHANGED <<enumBytes, api, status, pc, wpc, command, pParameter, parmIn, err, werr,
                   mode, step, slot, id, pIdValid, pId, ret, detours, sensorFree,
                   sensorClean, concurrent, pInfo>>

\* IssueCommand returns, and its caller runs up to its next call into the environment
LiveReturn ==
    /\ tpc = "returned"
    /\ \E c \in {LastOnly(Resume(Observed(Ctl), result, parm))} : Apply(c)
    /\ UNCHANGED <<mempool, enumBytes>>

\* GT511_CheckTimeout(mode) returns timeout to the waiter
LiveCheckTimeout(timeout) ==
    /\ status = "running" /\ tpc = "idle"
    /\ wpc \in {"PressCheck", "ReleaseCheck"}
    /\ Apply(LastOnly(Finish(WaitAfterCheck(
           [Ctl EXCEPT !.trace = Append(@, [ev |-> "checktimeout", mode |-> mode,
                                            timeout |-> timeout])],
           timeout))))
    /\ UNCHANGED <<mempool, enumBytes>>

NextLive ==
    \/ CallRunIdentify
    \/ CallRunVerify
    \/ CallRunEnroll
    \/ LiveIssueCommand
    \/ LiveReturn
    \/ LiveCheckTimeout(FALSE)
    \/ LiveCheckTimeout(TRUE)

SpecLive ==
    /\ Init /\ [][NextLive]_vars
    /\ WF_vars(LiveIssueCommand)
    /\ WF_vars(LiveReturn)
    /\ WF_vars(LiveCheckTimeout(FALSE) \/ LiveCheckTimeout(TRUE))
    /\ SF_vars(LiveCheckTimeout(TRUE))

----------------------------------------------------------------------------
(* Reading the record of the calls into the environment *)

Last(S) == CHOOSE i \in S : \A j \in S : j <= i

Least(S) == CHOOSE i \in S : \A j \in S : i <= j

IsSend(e) == e.ev = "send"

\* the positions in t of the commands sent, of the commands with code cmd, of the
\* illumination commands "on" or "off", and of the notifications
Sends(t) == {i \in DOMAIN t : IsSend(t[i])}

SendsOf(t, cmd) == {i \in Sends(t) : Command(t[i].frame) = cmd}

LedSends(t, on) ==
    {i \in SendsOf(t, GT511_CMD_CMOS_LED) :
        Parameter(t[i].frame) = IF on THEN U32(1) ELSE U32(0)}

Notifications(t, ui) == {i \in DOMAIN t : t[i].ev = "ui" /\ t[i].ui = ui}

NotificationsIn(t, m, ui) == {i \in Notifications(t, ui) : t[i].mode = m}

SetTimeouts(t) == {i \in DOMAIN t : t[i].ev = "settimeout"}

\* the call of IssueCommand in progress sent its command
LastSendOk == Sends(trace) # {} /\ trace[Last(Sends(trace))].ok

\* IssueCommand is about to return after a valid NACK frame of full size
ValidNackReturned ==
    /\ tpc = "returned" /\ LastSendOk /\ respCount = PacketSize
    /\ IsValidResponse(mempool)
    /\ Command(mempool) = GT511_RESP_NACK

\* x is an error code: a value of GT511_Error_t, as wide as the build makes that
\* type, other than "no error"
HardwareErrorCode(x) == x # U32(0) /\ (enumBytes = 4 \/ (x[3] = 0 /\ x[4] = 0))

----------------------------------------------------------------------------
(* The claims *)

C2_EnrollSuccess ==
    (api = "RunEnroll" /\ status = "returned" /\ ret = GT511_ERR_NONE)
    => /\ SendsOf(trace, GT511_CMD_CHECK_ENROLLED) # {}
       /\ pId = Parameter(trace[Last(SendsOf(trace, GT511_CMD_CHECK_ENROLLED))].frame)
       /\ Notifications(trace, GT511_UI_ACCEPT) = {Len(trace)}
       /\ trace[Len(trace)].mode = GT511_MODE_ENROLL
       /\ Cardinality(LedSends(trace, TRUE)) = 3
       /\ Cardinality(LedSends(trace, FALSE)) = 3

\* C2's case: an enrollment went through all its steps and returned no-error
C2_Witness ==
    /\ api = "RunEnroll" /\ status = "returned" /\ ret = GT511_ERR_NONE
    /\ SendsOf(trace, GT511_CMD_ENROLL3) # {}
    /\ pId = U32(1)

\* C3: in GT511_RunEnroll, when the capture command of the second step (step index 1)
\* returns an error E, the function goes to its illumination-off command with
\* err = E, and returns E after an Error notification with mode Enroll, having
\* sent no enroll-step-2 and no enroll-step-3 command, no third illumination-on,
\* no third capture, and no press query after the failed capture.
C3_CaptureFailsInStepTwo ==
    [][/\ (api = "RunEnroll" /\ pc = "Capture" /\ step = 1 /\ tpc = "returned"
             /\ result # GT511_ERR_NONE)
          => /\ err' = result
             /\ pc' = "CaptureFailOff" /\ step' = 1 /\ tpc' = "call"
             /\ command' = GT511_CMD_CMOS_LED /\ parm' = U32(0)
             /\ trace' = trace
       /\ (api = "RunEnroll" /\ pc = "CaptureFailOff" /\ step = 1)
          => /\ err' = err
             /\ status' = "returned"
                  => /\ ret' = err
                     /\ Len(trace') \in NotificationsIn(trace', GT511_MODE_ENROLL,
                                                         GT511_UI_ERROR)
                     /\ SendsOf(trace', GT511_CMD_ENROLL2) = {}
                     /\ SendsOf(trace', GT511_CMD_ENROLL3) = {}
                     /\ Cardinality(LedSends(trace', TRUE)) = 2
                     /\ Cardinality(SendsOf(trace', GT511_CMD_CAPTURE_FINGER)) = 2
                     /\ \A i \in SendsOf(trace', GT511_CMD_IS_PRESS_FINGER) :
                           i < Last(SendsOf(trace', GT511_CMD_CAPTURE_FINGER))
                     /\ \A i \in Sends(trace') :
                           i > Last(SendsOf(trace', GT511_CMD_CAPTURE_FINGER))
                           => i \in LedSends(trace', FALSE)
      ]_vars

\* C3's case: GT511_RunEnroll has returned from the failed capture of its second
\* step with the error code of the sensor's NACK
C3_Witness ==
    /\ api = "RunEnroll" /\ status = "returned" /\ pc = "CaptureFailOff" /\ step = 1
    /\ ret = GT511_ERR_IS_NOT_USED

\* C4: in WaitFingerPress and in WaitFingerRelease, when the first call of
\* GT511_CheckTimeout returns true, the waiter makes the Timeout notification and
\* returns GT511_ERR_OTHER_ERROR to its caller: between its prompt and its return
\* it sends no command at all (no is-finger-pressed query, no illumination command).
C4_TimeoutOnFirstPoll ==
    [][(/\ wpc \in {"PressCheck", "ReleaseCheck"} /\ tpc = "idle"
        /\ Len(trace) >= 2
        /\ trace[Len(trace)] = [ev |-> "settimeout", mode |-> mode]
        /\ Len(trace') > Len(trace)
        /\ trace'[Len(trace) + 1] = [ev |-> "checktimeout", mode |-> mode, timeout |-> TRUE])
       => /\ trace[Len(trace) - 1] =
                [ev |-> "ui", mode |-> mode,
                 ui |-> IF wpc = "PressCheck" THEN GT511_UI_PRESS ELSE GT511_UI_RELEASE]
          /\ trace' = trace \o <<[ev |-> "checktimeout", mode |-> mode, timeout |-> TRUE],
                                 [ev |-> "ui", mode |-> mode, ui |-> GT511_UI_TIMEOUT]>>
          /\ wpc' = "none"
          /\ err' = GT511_ERR_OTHER_ERROR
          /\ pc' = IF wpc = "PressCheck" THEN "PressFailOff" ELSE "ReleaseFailOff"
      ]_vars

\* C4's case: the press wait has ended on the first poll of the timeout
C4_Witness ==
    /\ pc = "PressFailOff" /\ Len(trace) >= 4
    /\ trace[Len(trace)].ev = "ui" /\ trace[Len(trace)].ui = GT511_UI_TIMEOUT
    /\ trace[Len(trace) - 1].ev = "checktimeout"
    /\ trace[Len(trace) - 2].ev = "settimeout"
    /\ trace[Len(trace) - 3].ev = "ui" /\ trace[Len(trace) - 3].ui = GT511_UI_PRESS

\* the commands sent are exactly the check-enrolled commands for the ids 0 .. n-1,
\* in ascending order
ScannedUpTo(n) ==
    LET sent == SelectSeq(trace, IsSend)
    IN /\ Len(sent) = n
       /\ \A i \in 1..n : /\ Command(sent[i].frame) = GT511_CMD_CHECK_ENROLLED
                          /\ Parameter(sent[i].frame) = U32(i - 1)

\* C5: for every set of free slots of the sensor, when every check-enrolled command
\* is answered as that sensor answers it, GT511_FindAvailable returns no-error with
\* the caller's id set to the lowest free slot k after sending check-enrolled for
\* exactly 0, 1, ..., k in this order; when no slot is free it sends check-enrolled
\* for all GT511_NUM_SLOTS ids and returns GT511_ERR_INVALID_POS.
C5_FindAvailableLowestFree ==
    (api = "FindAvailable" /\ status = "returned" /\ pIdValid /\ sensorClean)
    => IF sensorFree = {}
       THEN ret = GT511_ERR_INVALID_POS /\ ScannedUpTo(GT511_NUM_SLOTS)
       ELSE /\ ret = GT511_ERR_NONE
            /\ pId = U32(Least(sensorFree))
            /\ ScannedUpTo(Least(sensorFree) + 1)

\* C5's case: the scan of a sensor with slots used, used, free, ... has returned
C5_Witness ==
    /\ api = "FindAvailable" /\ status = "returned" /\ pIdValid /\ sensorClean
    /\ 2 \in sensorFree /\ 0 \notin sensorFree /\ 1 \notin sensorFree
    /\ ret = GT511_ERR_NONE

\* the sum of the first ten bytes of the buffer, as a 16-bit number
FrameSum ==
    (mempool[1] + mempool[2] + mempool[3] + mempool[4] + mempool[5] + mempool[6]
     + mempool[7] + mempool[8] + mempool[9] + mempool[10]) % 65536

\* the fields of the frame in the buffer, read byte by byte
FrameStartsRight == mempool[1] = 85 /\ mempool[2] = 170
FrameIdRight == mempool[3] = 1 /\ mempool[4] = 0
FrameCode == mempool[9] + 256 * mempool[10]
FrameChecksumRight == mempool[11] + 256 * mempool[12] = FrameSum

\* C6 as stated: every frame the builder builds is accepted by IsValidResponse.
C6_BuiltFrameAccepted ==
    (api = "BuildCommand" /\ pc = "validated") => ok

\* C6, amended: the frame the builder builds for any command code and parameter
\* has the start bytes, the id 1, the parameter, the command code and the 16-bit sum
\* of its first ten bytes as checksum, and IsValidResponse accepts it exactly when
\* the command code is that of ACK (0x30) or NACK (0x31).
C6_BuiltFrameAcceptedIffResponseCode ==
    (api = "BuildCommand" /\ pc = "validated")
    => /\ FrameStartsRight /\ FrameIdRight /\ FrameChecksumRight
       /\ FrameCode = command
       /\ Parameter(mempool) = (IF pParameter THEN parm ELSE U32(0))
       /\ ok <=> command \in {48, 49}

\* C6's case: a built frame with the code of ACK and the largest parameter was
\* validated and accepted
C6_Witness ==
    /\ api = "BuildCommand" /\ pc = "validated" /\ command = GT511_RESP_ACK /\ ok
    /\ parm = <<255, 255, 255, 255>>

\* C7: a frame IsValidResponse accepts is rejected after any one of its 12 bytes
\* took any other value; and a frame with a wrong start byte, with an id other than
\* 1, with a code that is neither ACK nor NACK, or with a checksum field that is not
\* the 16-bit sum of its first ten bytes is rejected, whatever the other fields are.
C7_CorruptionRejected ==
    /\ pc = "checked" => ~ ok
    /\ pc = "validated"
       => /\ ~ FrameStartsRight => ~ ok
          /\ ~ FrameIdRight => ~ ok
          /\ FrameCode \notin {48, 49} => ~ ok
          /\ ~ FrameChecksumRight => ~ ok

\* C7's case: an accepted frame had the low byte of its id changed from 1 to 2 and
\* was validated again
C7_Witness ==
    /\ pc = "checked" /\ ~ ok
    /\ FrameStartsRight /\ FrameChecksumRight = FALSE /\ FrameCode = 48
    /\ mempool[3] = 2

\* C8 as stated: after a valid NACK frame with parameter p, IssueCommand returns p
\* and the caller's parameter is what it was at the call.
C8_NackParameterUnmodified ==
    ValidNackReturned => (result = Parameter(mempool) /\ parm = parmIn)

\* C9 as stated: the code IssueCommand returns for a valid NACK is never
\* GT511_ERR_OTHER_ERROR, and it returns GT511_ERR_OTHER_ERROR only when the send
\* failed, the byte count was wrong or the frame was invalid.
C9_NackNeverDriverLocal ==
    /\ ValidNackReturned => result # GT511_ERR_OTHER_ERROR
    /\ (tpc = "returned" /\ result = GT511_ERR_OTHER_ERROR)
       => (~ LastSendOk \/ respCount # PacketSize \/ ~ IsValidResponse(mempool))

\* C10 as stated: IssueCommand returns GT511_ERR_NONE if and only if the command was
\* sent, a frame of full size was received, the frame is valid and its code is ACK.
C10_NoErrorIffAck ==
    tpc = "returned"
    => (result = GT511_ERR_NONE
        <=> (/\ LastSendOk /\ respCount = PacketSize
             /\ IsValidResponse(mempool)
             /\ Command(mempool) = GT511_RESP_ACK))

\* the three workflows
Workflows == {"RunIdentify", "RunVerify", "RunEnroll"}

\* C11: when GT511_RunIdentify, GT511_RunVerify or GT511_RunEnroll has returned, on
\* any path, and an illumination-on command was sent (whether or not the send or
\* the command succeeded), an illumination-off command was sent after the last
\* illumination-on command: the most recent illumination command is never "on".
C11_IlluminationOffAtReturn ==
    (api \in Workflows /\ status = "returned" /\ LedSends(trace, TRUE) # {})
    => /\ LedSends(trace, FALSE) # {}
       /\ Last(LedSends(trace, FALSE)) > Last(LedSends(trace, TRUE))

\* C11's case: GT511_RunEnroll has returned on the path where the illumination-on
\* command of its second step itself was not sent
C11_Witness ==
    /\ api = "RunEnroll" /\ status = "returned" /\ pc = "LedOnFailOff" /\ step = 1
    /\ \E i \in LedSends(trace, TRUE) : ~ trace[i].ok

\* IssueCommand is about to return to a workflow, or to a waiter it called, from an
\* illumination-off command
LedOffReturned ==
    /\ api \in Workflows /\ tpc = "returned"
    /\ command = GT511_CMD_CMOS_LED /\ parmIn = U32(0)

\* C12: when an illumination-off command returns in a workflow, the code that runs
\* next (the error kept and returned, the notifications made, the next command) is
\* the same for every result of that command; the last illumination-off of
\* GT511_RunIdentify and GT511_RunVerify, and of the third step of GT511_RunEnroll,
\* is followed by the Accept notification and the return of no-error whatever its
\* result, and the one that ends the first or second step of GT511_RunEnroll is
\* followed by the illumination-on command of the next step.
C12_IlluminationOffBestEffort ==
    [][LedOffReturned
       => /\ \A e \in {GT511_ERR_NONE, GT511_ERR_OTHER_ERROR, GT511_ERR_IS_NOT_USED},
                p \in {U32(0), U32(1)} :
                Resume(Ctl, e, p) = Resume(Ctl, result, parm)
          /\ (api \in {"RunIdentify", "RunVerify"} /\ pc = "LedOff")
             => /\ status' = "returned" /\ ret' = GT511_ERR_NONE
                /\ Notifications(trace', GT511_UI_ACCEPT) = {Len(trace')}
          /\ (api = "RunEnroll" /\ pc = "LedOff" /\ step < 2)
             => /\ status' = "running" /\ step' = step + 1 /\ pc' = "LedOn"
                /\ tpc' = "call" /\ command' = GT511_CMD_CMOS_LED /\ parm' = U32(1)
                /\ trace' = trace
          /\ (api = "RunEnroll" /\ pc = "LedOff" /\ step = 2)
             => /\ status' = "returned" /\ ret' = GT511_ERR_NONE
                /\ Notifications(trace', GT511_UI_ACCEPT) = {Len(trace')}
      ]_vars

\* C12's case: GT511_RunEnroll has returned no-error although an illumination-off
\* command of it could not be sent
C12_Witness ==
    /\ api = "RunEnroll" /\ status = "returned" /\ ret = GT511_ERR_NONE
    /\ \E i \in LedSends(trace, FALSE) : ~ trace[i].ok

\* the one element of a set of one
The(S) == CHOOSE x \in S : TRUE

\* IssueCommand is about to return after a valid ACK frame of full size
ValidAckReturned ==
    /\ tpc = "returned" /\ LastSendOk /\ respCount = PacketSize
    /\ IsValidResponse(mempool)
    /\ Command(mempool) = GT511_RESP_ACK

\* the calls into the environment recorded in t are those of a successful
\* identification, in its order: illumination-on, the Press prompt and the press
\* queries, the capture with parameter 0, the identify command, the Release prompt
\* and the press queries, illumination-off, Accept
IdentifyOrder(t) ==
    LET on == LedSends(t, TRUE)
        off == LedSends(t, FALSE)
        cap == SendsOf(t, GT511_CMD_CAPTURE_FINGER)
        idn == SendsOf(t, GT511_CMD_IDENTIFY)
        query == SendsOf(t, GT511_CMD_IS_PRESS_FINGER)
        press == NotificationsIn(t, GT511_MODE_IDENTIFY, GT511_UI_PRESS)
        release == NotificationsIn(t, GT511_MODE_IDENTIFY, GT511_UI_RELEASE)
        accept == NotificationsIn(t, GT511_MODE_IDENTIFY, GT511_UI_ACCEPT)
    IN /\ \A S \in {on, off, cap, idn, press, release, accept} : Cardinality(S) = 1
       /\ Sends(t) = on \cup off \cup cap \cup idn \cup query
       /\ {i \in DOMAIN t : t[i].ev = "ui"} = press \cup release \cup accept
       /\ The(on) < The(press) /\ The(press) < The(cap) /\ The(cap) < The(idn)
       /\ The(idn) < The(release) /\ The(release) < The(off) /\ The(off) < The(accept)
       /\ The(accept) = Len(t)
       /\ Parameter(t[The(cap)].frame) = U32(0)
       /\ SetTimeouts(t) = {The(press) + 1, The(release) + 1}
       /\ \A i \in query : \/ (The(press) < i /\ i < The(cap))
                            \/ (The(release) < i /\ i < The(off))
       /\ \E i \in query : i < The(cap)
       /\ \E i \in query : The(release) < i

\* C13: when GT511_RunIdentify returns no-error, its calls into the environment
\* were, in this order, illumination-on, the press wait with mode Identify, the
\* capture with parameter 0, the identify command, the release wait,
\* illumination-off and, last, the Accept notification; and when the identify
\* command returns after a valid ACK the caller's id becomes the parameter of that
\* ACK (if the caller gave storage for it) and is not written again.
C13_IdentifySuccessOrder ==
    [][/\ (api = "RunIdentify" /\ status' = "returned" /\ ret' = GT511_ERR_NONE)
          => IdentifyOrder(trace')
       /\ (api = "RunIdentify" /\ pc = "Identify" /\ ValidAckReturned)
          => /\ pId' = IF pIdValid THEN Parameter(mempool) ELSE pId
             /\ pc' = "WaitRelease"
       /\ (api = "RunIdentify" /\ pc \in {"WaitRelease", "LedOff"})
          => pId' = pId
      ]_vars

\* C13's case: GT511_RunIdentify has returned no-error with the id 1 of the ACK in
\* the caller's storage
C13_Witness ==
    /\ api = "RunIdentify" /\ status = "returned" /\ ret = GT511_ERR_NONE
    /\ pIdValid /\ pId = U32(1)

\* GT511_RunVerify read as GT511_RunIdentify: the mode Verify as the mode Identify,
\* the verify command with the caller's id as the identify command, and the
\* positions of the one function as those of the other
AsIdentifyMode(m) == IF m = GT511_MODE_VERIFY THEN GT511_MODE_IDENTIFY ELSE m

AsIdentifyPc(p) ==
    IF p = "Verify" THEN "Identify" ELSE IF p = "VerifyFailOff" THEN "IdentifyFailOff" ELSE p

AsIdentifyEvent(e) ==
    IF e.ev = "send"
    THEN IF Command(e.frame) = GT511_CMD_VERIFY
         THEN [e EXCEPT !.frame = BuildCommand(GT511_CMD_IDENTIFY, TRUE, U32(0))]
         ELSE e
    ELSE IF e.ev = "recv" THEN e ELSE [e EXCEPT !.mode = AsIdentifyMode(@)]

AsIdentifyNext(n) ==
    IF n.kind = "call"
    THEN IF n.w.command = GT511_CMD_VERIFY THEN [n EXCEPT !.w = GT511_Identify] ELSE n
    ELSE n

RECURSIVE AsIdentifyTrace(_)
AsIdentifyTrace(t) ==
    IF t = <<>> THEN <<>>
    ELSE Append(AsIdentifyTrace(SubSeq(t, 1, Len(t) - 1)), AsIdentifyEvent(t[Len(t)]))

AsIdentify(c) ==
    [c EXCEPT !.api = "RunIdentify", !.pc = AsIdentifyPc(@), !.mode = AsIdentifyMode(@),
              !.trace = AsIdentifyTrace(@), !.next = AsIdentifyNext(@)]

\* what the environment sees of a control state and what the function returns: all
\* but the id argument of the one function and the id storage of the other
Shape(c) == [c EXCEPT !.id = U32(0), !.pIdValid = TRUE, !.pId = PidInit]

\* the control state c after GT511_CheckTimeout returned timeout to the waiter
Polled(c, timeout) ==
    Finish(WaitAfterCheck(
        [c EXCEPT !.trace = Append(@, [ev |-> "checktimeout", mode |-> c.mode,
                                       timeout |-> timeout])],
        timeout))

EnrollStepCommands == {GT511_CMD_ENROLL1, GT511_CMD_ENROLL2, GT511_CMD_ENROLL3}

\* C15: when GT511_RunEnroll returns after the enrollment command of a step failed
\* with E, the last calls into the environment after that command are the
\* illumination-off command and then the Reject notification in the mode Enroll,
\* no Release prompt and no further command follow the failed command, and the
\* function returns E.
C15_EnrollFailureOffThenReject ==
    (api = "RunEnroll" /\ status = "returned" /\ pc = "EnrollFailOff")
    => LET failed == Last(UNION {SendsOf(trace, cmd) : cmd \in EnrollStepCommands})
           off == {i \in LedSends(trace, FALSE) : i > failed}
           reject == {i \in NotificationsIn(trace, GT511_MODE_ENROLL, GT511_UI_REJECT) :
                        i > failed}
       IN  /\ ret = err /\ ret # GT511_ERR_NONE
           /\ Cardinality(off) = 1 /\ Cardinality(reject) = 1
           /\ The(off) < The(reject)
           /\ {i \in Sends(trace) : i > failed} = off
           /\ {i \in Notifications(trace, GT511_UI_RELEASE) : i > failed} = {}

\* C16: a command whose send failed is followed neither by a receive nor by a
\* second send of its frame, and IssueCommand returns GT511_ERR_OTHER_ERROR right
\* after the failed send; an operation of one command sends at most one frame.
C16_NoRetry ==
    /\ \A i \in Sends(trace) :
          (~ trace[i].ok /\ i < Len(trace))
          => /\ trace[i + 1].ev # "recv"
             /\ IsSend(trace[i + 1]) => trace[i + 1].frame # trace[i].frame
    /\ (tpc = "returned" /\ Sends(trace) # {} /\ ~ LastSendOk)
       => /\ result = GT511_ERR_OTHER_ERROR
          /\ Last(Sends(trace)) = Len(trace)
    /\ api = "Command" => Cardinality(Sends(trace)) <= 1

\* C16's case: the one command of an operation was not sent, and the operation
\* returned the driver's own error
C16_Witness ==
    /\ api = "Command" /\ status = "returned" /\ ret = GT511_ERR_OTHER_ERROR
    /\ Len(trace) = 1 /\ IsSend(trace[1]) /\ ~ trace[1].ok

\* what thread t wrote into mempool and still needs there was written over: it
\* built its command and has not sent it, or received its answer and has not
\* validated it, and another thread wrote into mempool since
Overwritten(t) == callers[t].tpc \in {"built", "received"} /\ holds.who # t

\* C17: when the application calls the driver under a lock, no thread's frame in
\* mempool is written over by another thread between its build and its send or
\* between its receive and its validation, and what a thread validated is the
\* answer it received itself to the command it built itself.  (Without the lock
\* such a state is reachable: C17_Witness.)
C17_MutualExclusionProtects ==
    mutex
    => \A t \in Callers :
          /\ ~ Overwritten(t)
          /\ callers[t].tpc \in {"built", "received"}
             => \A u \in Callers \ {t} : callers[u].tpc = "idle"
          /\ callers[t].validated # NotWritten
             => callers[t].validated
                = [who |-> t, what |-> "response", for |-> callers[t].built]

\* C17's case: without a lock, one thread built its command and has not sent it,
\* and mempool holds what the other thread built or received since
C17_Witness ==
    /\ ~ mutex
    /\ \E t \in Callers :
          /\ callers[t].tpc = "built" /\ holds.who # t /\ holds.who # NoCaller
          /\ Prefix(mempool, PacketSize) # callers[t].built

\* the positions in t of the calls that carry a mode: GT511_UserCallback,
\* GT511_SetTimeout, GT511_CheckTimeout
ModeCalls(t) == {i \in DOMAIN t : t[i].ev \in {"ui", "settimeout", "checktimeout"}}

\* C18: every GT511_UserCallback, GT511_SetTimeout and GT511_CheckTimeout call
\* made so far by GT511_RunIdentify carries GT511_MODE_IDENTIFY, and every such
\* call made so far by GT511_RunEnroll carries GT511_MODE_ENROLL, in every state
\* of every run, failed or not.
C18_ModeOfIdentifyAndEnroll ==
    /\ api = "RunIdentify"
       => \A i \in ModeCalls(trace) : trace[i].mode = GT511_MODE_IDENTIFY
    /\ api = "RunEnroll"
       => \A i \in ModeCalls(trace) : trace[i].mode = GT511_MODE_ENROLL

\* C18's case: GT511_RunEnroll returned after a failed capture, having prompted,
\* armed and polled the timeout, and notified the error
C18_Witness ==
    /\ api = "RunEnroll" /\ status = "returned" /\ pc = "CaptureFailOff"
    /\ Notifications(trace, GT511_UI_ERROR) # {}
    /\ \E i \in ModeCalls(trace) : trace[i].ev = "checktimeout"

IsPrompt(t, i) == t[i].ev = "ui" /\ t[i].ui \in {GT511_UI_PRESS, GT511_UI_RELEASE}

IsSetTimeout(t, i) == t[i].ev = "settimeout"

IsCheckTimeout(t, i) == t[i].ev = "checktimeout"

IsQuery(t, i) == IsSend(t[i]) /\ Command(t[i].frame) = GT511_CMD_IS_PRESS_FINGER

IsQueryAnswer(t, i) == i > 1 /\ t[i].ev = "recv" /\ IsQuery(t, i - 1)

Queries(t) == {i \in DOMAIN t : IsQuery(t, i)}

CheckTimeouts(t) == {i \in DOMAIN t : IsCheckTimeout(t, i)}

\* the call at position i of t is in the waiters' order: a prompt is not made from
\* inside a polling loop and is followed at once by the arming of the timeout in
\* its mode; the timeout is armed nowhere else; a poll of the timeout follows the
\* arming or the answer to a query; a query follows at once a poll that returned
\* false
WaitOrderAt(t, i) ==
    /\ IsPrompt(t, i)
       => /\ i > 1 => ~ IsCheckTimeout(t, i - 1) /\ ~ IsQueryAnswer(t, i - 1)
          /\ i < Len(t) /\ IsSetTimeout(t, i + 1) /\ t[i + 1].mode = t[i].mode
    /\ IsSetTimeout(t, i) => i > 1 /\ IsPrompt(t, i - 1)
    /\ IsCheckTimeout(t, i)
       => i > 1 /\ (IsSetTimeout(t, i - 1) \/ IsQueryAnswer(t, i - 1))
    /\ IsQuery(t, i) => i > 1 /\ IsCheckTimeout(t, i - 1) /\ ~ t[i - 1].timeout

\* the is-finger-pressed query of a waiter is about to return the state the
\* waiter waits for
TargetObserved ==
    /\ tpc = "returned" /\ result = GT511_ERR_NONE
    /\ \/ wpc = "PressQuery" /\ IsPressed(parm)
       \/ wpc = "ReleaseQuery" /\ ~ IsPressed(parm)

\* C20: every step adds calls to the end of the record only, and every call it
\* adds is in the waiters' order (one prompt, then one arming of the timeout, then
\* polls and queries, each query right after a poll that returned false, no arming
\* inside the loop); and the step that follows the observation of the awaited
\* state ends the wait with no error and records no call: no further notification.
C20_WaitPhaseOrder ==
    [][/\ Len(trace') >= Len(trace) /\ SubSeq(trace', 1, Len(trace)) = trace
       /\ \A i \in (Len(trace) + 1)..Len(trace') : WaitOrderAt(trace', i)
       /\ TargetObserved
          => /\ wpc' = "none" /\ status' = "running"
             /\ err' = GT511_ERR_NONE
             /\ trace' = trace
             /\ (wpc = "PressQuery") => pc' = "Capture"
             /\ (wpc = "ReleaseQuery") => pc' = "LedOff"]_vars

\* C20's case: the press wait polled twice, the finger was not pressed at the
\* first query, and the second query is about to return that it is
C20_Witness ==
    /\ TargetObserved /\ wpc = "PressQuery"
    /\ Cardinality(Queries(trace)) = 2 /\ Cardinality(CheckTimeouts(trace)) = 2
    /\ Cardinality(SetTimeouts(trace)) = 1
    /\ \A i \in DOMAIN trace : WaitOrderAt(trace, i)

\* the is-finger-pressed query of a waiter is about to return an error
QueryFailed ==
    /\ tpc = "returned" /\ result # GT511_ERR_NONE
    /\ wpc \in {"PressQuery", "ReleaseQuery"}

\* the illumination-off command a waiter issued after a failed query is about to
\* return
QueryFailedLedOffReturned == tpc = "returned" /\ wpc \in {"PressLedOff", "ReleaseLedOff"}

\* C21: when the is-finger-pressed query of a waiter returns an error E, the
\* waiter records no call and issues the illumination-off command next; when that
\* command returns, whatever its result, the waiter makes the Error notification
\* in its mode and nothing else, and returns E to the workflow, which goes to its
\* failure path with err = E: no Timeout notification, no further poll.
C21_QueryFailureOffThenError ==
    [][/\ QueryFailed
          => /\ wpc' = (IF wpc = "PressQuery" THEN "PressLedOff" ELSE "ReleaseLedOff")
             /\ werr' = result
             /\ trace' = trace
             /\ tpc' = "call" /\ command' = GT511_CMD_CMOS_LED
             /\ pParameter' /\ parmIn' = U32(0)
       /\ QueryFailedLedOffReturned
          => /\ trace' = Append(trace, [ev |-> "ui", mode |-> mode, ui |-> GT511_UI_ERROR])
             /\ wpc' = "none"
             /\ err' = werr /\ err' # GT511_ERR_NONE
             /\ pc' = (IF wpc = "PressLedOff" THEN "PressFailOff" ELSE "ReleaseFailOff")]_vars

\* C21's case: the query of the release wait failed with the sensor's error, the
\* waiter turned the illumination off and notified the error, and the workflow
\* holds that error
C21_Witness ==
    /\ pc = "ReleaseFailOff" /\ tpc = "call" /\ err = GT511_ERR_IS_NOT_USED
    /\ trace[Len(trace)] = [ev |-> "ui", mode |-> mode, ui |-> GT511_UI_ERROR]
    /\ LedSends(trace, FALSE) # {}

\* GT511_RunIdentify or GT511_RunVerify is running, and the mode it works in
IdentifyOrVerify == api \in {"RunIdentify", "RunVerify"}

ModeOfApi == IF api = "RunIdentify" THEN GT511_MODE_IDENTIFY ELSE GT511_MODE_VERIFY

\* the illumination-off command is the next command, and nothing was recorded
IssuesLedOffNext ==
    /\ tpc' = "call" /\ command' = GT511_CMD_CMOS_LED /\ pParameter' /\ parmIn' = U32(0)
    /\ trace' = trace

\* C22: in GT511_RunIdentify and GT511_RunVerify, when the capture command
\* returns an error E the workflow issues the illumination-off command next, and
\* when that command returns it makes the Error notification, the only one of the
\* run, and returns E; the run has issued no identify or verify command and made
\* no Release prompt.
C22_CaptureFailure ==
    [][/\ (IdentifyOrVerify /\ tpc = "returned" /\ pc = "Capture"
           /\ result # GT511_ERR_NONE)
          => /\ pc' = "CaptureFailOff" /\ err' = result
             /\ IssuesLedOffNext
       /\ (IdentifyOrVerify /\ tpc = "returned" /\ pc = "CaptureFailOff")
          => /\ status' = "returned" /\ ret' = err /\ ret' # GT511_ERR_NONE
             /\ trace' = Append(trace, [ev |-> "ui", mode |-> ModeOfApi,
                                        ui |-> GT511_UI_ERROR])
             /\ Cardinality(Notifications(trace', GT511_UI_ERROR)) = 1
             /\ SendsOf(trace', GT511_CMD_IDENTIFY) = {}
             /\ SendsOf(trace', GT511_CMD_VERIFY) = {}
             /\ Notifications(trace', GT511_UI_RELEASE) = {}]_vars

\* C22's case: GT511_RunVerify returned the sensor's error of the capture command
C22_Witness ==
    /\ api = "RunVerify" /\ status = "returned" /\ pc = "CaptureFailOff"
    /\ ret = GT511_ERR_IS_NOT_USED
    /\ Parameter(trace[Last(SendsOf(trace, GT511_CMD_CAPTURE_FINGER))].frame) = U32(0)

\* the notifications that end a wait in failure, and those of the workflow itself
WaiterFailures(t) == Notifications(t, GT511_UI_TIMEOUT) \cup Notifications(t, GT511_UI_ERROR)

Verdicts(t) == Notifications(t, GT511_UI_ACCEPT) \cup Notifications(t, GT511_UI_REJECT)

\* C23: in GT511_RunIdentify and GT511_RunVerify, the step in which a wait fails
\* ends with the waiter's Timeout or Error notification as the last call recorded
\* and the illumination-off command as the next command; when that command
\* returns, the workflow returns the waiter's error and records nothing: the run
\* has one Timeout or Error notification, made before the illumination-off
\* command, and no Accept and no Reject.
C23_WaitFailure ==
    [][/\ (IdentifyOrVerify /\ pc' \in {"PressFailOff", "ReleaseFailOff"} /\ pc' # pc)
          => /\ tpc' = "call" /\ command' = GT511_CMD_CMOS_LED /\ parmIn' = U32(0)
             /\ err' # GT511_ERR_NONE
             /\ Len(trace') \in WaiterFailures(trace')
             /\ trace'[Len(trace')].mode = ModeOfApi
       /\ (IdentifyOrVerify /\ tpc = "returned" /\ pc \in {"PressFailOff", "ReleaseFailOff"})
          => /\ status' = "returned" /\ ret' = err /\ ret' # GT511_ERR_NONE
             /\ trace' = trace
             /\ Cardinality(WaiterFailures(trace')) = 1
             /\ The(WaiterFailures(trace')) < Last(LedSends(trace', FALSE))
             /\ \A i \in DOMAIN trace' :
                   i > The(WaiterFailures(trace')) => trace'[i].ev \in {"send", "recv"}
             /\ Verdicts(trace') = {}]_vars

\* C23's case: GT511_RunIdentify returned after its release wait timed out
C23_Witness ==
    /\ api = "RunIdentify" /\ status = "returned" /\ pc = "ReleaseFailOff"
    /\ Notifications(trace, GT511_UI_TIMEOUT) # {}
    /\ ret = GT511_ERR_OTHER_ERROR

\* the enrollment command of step s (0, 1, 2) by its code
EnrollCode(s) ==
    IF s = 0 THEN GT511_CMD_ENROLL1
    ELSE IF s = 1 THEN GT511_CMD_ENROLL2 ELSE GT511_CMD_ENROLL3

\* the commands recorded in t are in the order of an enrollment: the
\* check-enrolled scan first; then at most one enroll-start, with the id of the
\* last slot checked, before every other command; at most one command of each
\* enrollment step, the command of step s + 1 after that of step s with a Release
\* prompt and no Timeout or Error notification between them; each of them right
\* after a capture with parameter 1 that was sent and answered in full; at most
\* three illumination-on commands
EnrollOrder(t) ==
    LET checks == SendsOf(t, GT511_CMD_CHECK_ENROLLED)
        starts == SendsOf(t, GT511_CMD_ENROLL_START)
        steps == [s \in 0..2 |-> SendsOf(t, EnrollCode(s))]
    IN  /\ Cardinality(starts) <= 1
        /\ \A i \in checks : \A j \in Sends(t) \ checks : i < j
        /\ \A j \in Sends(t) \ (checks \cup starts) : starts # {} /\ The(starts) < j
        /\ starts # {}
           => /\ checks # {}
              /\ Parameter(t[The(starts)].frame) = Parameter(t[Last(checks)].frame)
        /\ \A s \in 0..2 :
              /\ Cardinality(steps[s]) <= 1
              /\ \A i \in steps[s] :
                    /\ i > 2
                    /\ t[i - 1].ev = "recv" /\ t[i - 1].count = PacketSize
                    /\ (i - 2) \in SendsOf(t, GT511_CMD_CAPTURE_FINGER)
                    /\ t[i - 2].ok /\ Parameter(t[i - 2].frame) = U32(1)
        /\ \A s \in 1..2 :
              steps[s] # {}
              => /\ steps[s - 1] # {} /\ The(steps[s - 1]) < The(steps[s])
                 /\ \E i \in Notifications(t, GT511_UI_RELEASE) :
                       The(steps[s - 1]) < i /\ i < The(steps[s])
                 /\ \A i \in WaiterFailures(t) :
                       ~ (The(steps[s - 1]) < i /\ i < The(steps[s]))
        /\ Cardinality(LedSends(t, TRUE)) <= 3

\* C24: in GT511_RunEnroll, after every step that records a send the commands
\* recorded are in the order of an enrollment (EnrollOrder); the enroll-start
\* command carries the id GT511_FindAvailable stored at the caller's pId; the
\* command of an enrollment step is issued only when the capture with the
\* high-quality flag of the same step returned no error, and is the command of
\* that step; the illumination-on command that opens step s + 1 is issued only
\* when the illumination-off command that ends step s returned, which is issued
\* only when the release wait of step s returned no error; the step is below 3.
C24_EnrollCommandOrder ==
    [][api = "RunEnroll"
       => /\ (Len(trace') > Len(trace) /\ IsSend(trace'[Len(trace')]))
             => EnrollOrder(trace')
          /\ (tpc' = "call" /\ command' = GT511_CMD_ENROLL_START)
             => parmIn' = pId' /\ pId' = U32(slot)
          /\ (tpc' = "call" /\ command' \in EnrollStepCommands)
             => /\ tpc = "returned" /\ pc = "Capture" /\ result = GT511_ERR_NONE
                /\ command = GT511_CMD_CAPTURE_FINGER /\ parmIn = U32(1)
                /\ step' = step /\ step \in 0..2 /\ command' = EnrollCode(step)
          /\ (tpc' = "call" /\ pc' = "LedOn" /\ step' > 0)
             => /\ tpc = "returned" /\ pc = "LedOff" /\ step' = step + 1 /\ step' < 3
          /\ (tpc' = "call" /\ pc' = "LedOff")
             => /\ tpc = "returned" /\ pc = "WaitRelease" /\ wpc = "ReleaseQuery"
                /\ result = GT511_ERR_NONE /\ err' = GT511_ERR_NONE
                /\ step' = step]_vars

\* C24's case: GT511_RunEnroll returned no error after the scan took the second
\* slot and all three enrollment steps were made
C24_Witness ==
    /\ api = "RunEnroll" /\ status = "returned" /\ ret = GT511_ERR_NONE
    /\ pId = U32(1) /\ Cardinality(SendsOf(trace, GT511_CMD_CHECK_ENROLLED)) = 2
    /\ SendsOf(trace, GT511_CMD_ENROLL3) # {}
    /\ EnrollOrder(trace)

\* the check-enrolled command of a scan of GT511_FindAvailable, called by the
\* application, is about to return
FindCheckReturned ==
    api = "FindAvailable" /\ tpc = "returned" /\ command = GT511_CMD_CHECK_ENROLLED

\* C25: in GT511_FindAvailable, when a check-enrolled command returns a result
\* that is neither no-error nor not-used, the function returns that result with
\* no further command and with the caller's storage at pId as it was; and
\* whenever the function has returned an error, GT511_ERR_INVALID_POS after a
\* full scan included, that storage holds what it held before the call.
C25_FindAvailableAborts ==
    [][/\ (FindCheckReturned /\ result \notin {GT511_ERR_NONE, GT511_ERR_IS_NOT_USED})
          => /\ status' = "returned" /\ ret' = result
             /\ tpc' = "idle" /\ trace' = trace
             /\ pId' = pId
       /\ (FindCheckReturned /\ result = GT511_ERR_NONE /\ slot = GT511_NUM_SLOTS - 1)
          => /\ status' = "returned" /\ ret' = GT511_ERR_INVALID_POS
             /\ pId' = pId
       /\ (api' = "FindAvailable" /\ status' = "returned" /\ ret' # GT511_ERR_NONE)
          => pId' = PidInit]_vars

\* C25's case: the scan returned the error of its second check-enrolled command,
\* and the caller's storage is as it was
C25_Witness ==
    /\ api = "FindAvailable" /\ status = "returned" /\ pIdValid
    /\ ret = GT511_ERR_OTHER_ERROR
    /\ Cardinality(SendsOf(trace, GT511_CMD_CHECK_ENROLLED)) = 2
    /\ trace[Len(trace)].ev = "recv" /\ trace[Len(trace)].count = PacketSize
    /\ pId = PidInit

\* IssueCommand is about to return after its one receive
ReceivedAndReturned ==
    /\ tpc = "returned" /\ Len(trace) > 1
    /\ trace[Len(trace)].ev = "recv"

\* C26: when IssueCommand is about to return after a receive of a byte count
\* other than 12, or of 12 bytes that IsValidResponse rejects, it returns
\* GT511_ERR_OTHER_ERROR, the receive is the last call recorded and the one send
\* of the command the call before it, and the caller's parameter holds what it
\* held at the call; and whenever IssueCommand is about to return, the caller's
\* parameter differs from its value at the call only after a valid ACK, whose
\* parameter it then holds.
C26_ReceiveFailure ==
    /\ (ReceivedAndReturned /\ (respCount # PacketSize \/ ~ IsValidResponse(mempool)))
       => /\ result = GT511_ERR_OTHER_ERROR
          /\ parm = parmIn
          /\ trace[Len(trace)].count = respCount
          /\ IsSend(trace[Len(trace) - 1]) /\ trace[Len(trace) - 1].ok
          /\ Command(trace[Len(trace) - 1].frame) = command
    /\ tpc = "returned"
       => parm = (IF ValidAckReturned /\ pParameter THEN Parameter(mempool) ELSE parmIn)

\* C26's case: a command with a parameter is about to return after a frame of
\* full size with a wrong checksum, whose parameter is not the caller's
C26_Witness ==
    /\ ReceivedAndReturned /\ respCount = PacketSize
    /\ ~ ChecksumOk(mempool) /\ pParameter
    /\ Parameter(mempool) # parmIn /\ parm = parmIn

\* the step records the receive of the data packet of GT511_Open
InfoReceived ==
    /\ api = "Open" /\ Len(trace') = Len(trace) + 1
    /\ trace'[Len(trace')].ev = "recv" /\ trace'[Len(trace')].length = MempoolSize

\* the response to the open command, still in the buffer, is a valid ACK
OpenAcked == IsValidResponse(mempool) /\ Command(mempool) = GT511_RESP_ACK

\* C27: GT511_Open sends the open command with parameter 1 when the caller
\* passed storage for the device info and 0 when it passed none; the receive of
\* the 30-byte data packet happens only with such storage and after a valid ACK
\* of the open command; when that receive returns 30 the function returns no
\* error with bytes 4..27 of the buffer in the caller's storage, whatever the
\* other bytes are, and when it returns another count the function returns
\* GT511_ERR_OTHER_ERROR with the caller's storage as it was.
C27_OpenInfoReceive ==
    [][/\ (api' = "Open" /\ trace' # <<>>)
          => /\ IsSend(trace'[1]) /\ Command(trace'[1].frame) = GT511_CMD_OPEN
             /\ Parameter(trace'[1].frame) = (IF pInfo'.null THEN U32(0) ELSE U32(1))
       /\ InfoReceived
          => /\ ~ pInfo.null
             /\ OpenAcked
             /\ status' = "returned"
             /\ IF trace'[Len(trace')].count = MempoolSize
                THEN /\ ret' = GT511_ERR_NONE
                     /\ pInfo'.firmwareVersion = SubSeq(mempool', 5, 8)
                     /\ pInfo'.isoAreaMaxSize = SubSeq(mempool', 9, 12)
                     /\ pInfo'.serialNumber = SubSeq(mempool', 13, 28)
                ELSE /\ ret' = GT511_ERR_OTHER_ERROR
                     /\ pInfo' = pInfo]_vars

----------------------------------------------------------------------------
(* C28 *)

\* the parameters of a successful is-finger-pressed answer that leave the wait at
\* position w short of its target state
ShortOfTarget(w) ==
    {p \in {U32(0), U32(1)} : IF w = "PressQuery" THEN ~ IsPressed(p) ELSE IsPressed(p)}

\* c is d but for the waiter's position and its next call into the environment
SameRun(c, d) == [c EXCEPT !.wpc = d.wpc, !.next = d.next, !.detours = d.detours] = d

\* a successful query short of the target takes the waiter back to the timeout
\* predicate and changes nothing else, and a timeout predicate that returns false
\* takes it to the next query: with no timeout the wait is a cycle
PollsOn ==
    /\ (status = "running" /\ tpc = "call" /\ wpc \in {"PressQuery", "ReleaseQuery"})
         => \A p \in ShortOfTarget(wpc) :
               LET d == Resume(Ctl, GT511_ERR_NONE, p)
               IN  /\ d.wpc = (IF wpc = "PressQuery" THEN "PressCheck" ELSE "ReleaseCheck")
                   /\ d.next = [kind |-> "poll"]
                   /\ SameRun(d, Ctl)
    /\ (status = "running" /\ tpc = "idle" /\ wpc \in {"PressCheck", "ReleaseCheck"})
         => LET d == Finish(WaitAfterCheck(Ctl, FALSE))
            IN  /\ d.wpc = (IF wpc = "PressCheck" THEN "PressQuery" ELSE "ReleaseQuery")
                /\ d.next = [kind |-> "call", w |-> GT511_IsPressFinger]
                /\ SameRun(d, Ctl)

\* C28: when every call into the environment returns and a timeout predicate that
\* is polled without end returns true at some poll, every run of RunIdentify,
\* RunVerify and RunEnroll returns; and while the sensor answers the query with
\* success short of the target state and the predicate returns false, the wait
\* polls on in the same state, so only the predicate ends it
C28_WorkflowsReturn ==
    /\ [] PollsOn
    /\ (status = "running") ~> (status = "returned")

\* the second release wait of an enrolment has just been ended by the timeout
\* predicate
C28_Witness ==
    /\ api = "RunEnroll" /\ status = "running" /\ tpc = "call" /\ step = 2
    /\ wpc = "none"
    /\ trace = <<[ev |-> "ui", mode |-> GT511_MODE_ENROLL, ui |-> GT511_UI_TIMEOUT]>>

----------------------------------------------------------------------------
(* C29 *)

IsTransport(e) == e.ev \in {"send", "recv"}

\* the position of the last call of the transport before position i of t, or 0
PrevTransport(t, i) ==
    LET S == {j \in 1..(i - 1) : IsTransport(t[j])} IN IF S = {} THEN 0 ELSE Last(S)

\* no send before position i of t still waits for its receive
NoneOutstanding(t, i) ==
    LET j == PrevTransport(t, i) IN j = 0 \/ t[j].ev = "recv" \/ ~ t[j].ok

\* the call at position i of t is in its place: a send when no transaction is
\* outstanding, a receive of a response directly after a successful send, and
\* any other receive as a 30-byte receive after the whole response to an open
\* command with parameter 1
TransactionOrderAt(t, i) ==
    CASE IsSend(t[i]) -> NoneOutstanding(t, i)
      [] t[i].ev = "recv" /\ t[i].length = PacketSize ->
            i > 1 /\ IsSend(t[i - 1]) /\ t[i - 1].ok
      [] t[i].ev = "recv" /\ t[i].length # PacketSize ->
            LET j == PrevTransport(t, i)
            IN  /\ t[i].length = MempoolSize
                /\ j > 1 /\ t[j].ev = "recv"
                /\ t[j].length = PacketSize /\ t[j].count = PacketSize
                /\ IsSend(t[j - 1]) /\ Command(t[j - 1].frame) = GT511_CMD_OPEN
                /\ Parameter(t[j - 1].frame) = U32(1)
      [] OTHER -> TRUE

\* C29: in the calls of one API operation, a send is made only when no
\* transaction is outstanding, every successful send is directly followed by one
\* receive of 12 bytes, the only other receive is the 30-byte receive of
\* GT511_Open after the response to an open command with parameter 1, that
\* response being a valid ACK, and no transaction is outstanding when the
\* operation returns (so the next operation starts as the first did).
C29_OneTransaction ==
    [][/\ \A i \in (Len(trace) + 1)..Len(trace') : TransactionOrderAt(trace', i)
       /\ InfoReceived => OpenAcked
       /\ status' = "returned" => NoneOutstanding(trace', Len(trace') + 1)]_vars

----------------------------------------------------------------------------
(* C30 *)

\* the sum of the first ten bytes of f, as an integer
SumOfTen(f) == f[1] + f[2] + f[3] + f[4] + f[5] + f[6] + f[7] + f[8] + f[9] + f[10]

\* s records a send of the 12-byte frame of the command in progress
SendsCommandFrame(s) ==
    /\ s.length = PacketSize /\ Len(s.frame) = PacketSize
    /\ \A k \in 1..PacketSize : s.frame[k] \in 0..255
    /\ s.frame[1] = 85 /\ s.frame[2] = 170
    /\ s.frame[3] = 1 /\ s.frame[4] = 0
    /\ <<s.frame[5], s.frame[6], s.frame[7], s.frame[8]>>
          = (IF pParameter THEN parm ELSE <<0, 0, 0, 0>>)
    /\ s.frame[9] + 256 * s.frame[10] = command
    /\ s.frame[11] + 256 * s.frame[12] = SumOfTen(s.frame)
    /\ SumOfTen(s.frame) <= 2550

\* C30: every frame handed to GT511_SendMessage has 12 bytes: 0x55, 0xAA, the id
\* 1, the caller's parameter (0 when it passed none), the command code, and a
\* checksum that is the sum of the first ten bytes, which is at most 2550 and so
\* is not changed by the truncation to 16 bits.
C30_CommandFrame ==
    [][\A i \in (Len(trace) + 1)..Len(trace') :
          IsSend(trace'[i]) => SendsCommandFrame(trace'[i])]_vars

\* a command without a parameter and a command with a parameter that is not 0
\* have been sent
C30_Witness ==
    /\ \E i \in SendsOf(trace, GT511_CMD_ENROLL1) : Parameter(trace[i].frame) = U32(0)
    /\ \E i \in Sends(trace) :
          Parameter(trace[i].frame) # U32(0) /\ SumOfTen(trace[i].frame) > 256

----------------------------------------------------------------------------
(* C31 *)

\* the positions in t of the notifications that end a run
Terminals(t) == WaiterFailures(t) \cup Verdicts(t)

\* C31: in GT511_RunIdentify, GT511_RunVerify and GT511_RunEnroll no notification
\* is made after an Accept, Reject, Error or Timeout notification, so a run has
\* at most one of them and it is its last notification; at the return, the run
\* has an Accept exactly when it returns GT511_ERR_NONE, and a run with a Reject,
\* Error or Timeout returns another code.
C31_OneTerminalNotification ==
    [][api' \in Workflows
       => /\ \A i \in (Len(trace) + 1)..Len(trace') :
                trace'[i].ev = "ui" => Terminals(trace') \cap (1..(i - 1)) = {}
          /\ status' = "returned"
             => /\ Cardinality(Terminals(trace')) <= 1
                /\ (Notifications(trace', GT511_UI_ACCEPT) # {}) <=> (ret' = GT511_ERR_NONE)
                /\ (Terminals(trace') \ Notifications(trace', GT511_UI_ACCEPT) # {})
                      => ret' # GT511_ERR_NONE]_vars

\* C31's case: an enrollment returned after the Reject of its second step, which
\* follows the prompts of both steps
C31_Witness ==
    /\ api = "RunEnroll" /\ status = "returned" /\ step = 1
    /\ ret # GT511_ERR_NONE
    /\ Cardinality(Notifications(trace, GT511_UI_PRESS)) = 2
    /\ Terminals(trace) = Notifications(trace, GT511_UI_REJECT)
    /\ Cardinality(Terminals(trace)) = 1

----------------------------------------------------------------------------
(* C32 *)

\* the positions in t of the notifications
AllNotifications(t) == {i \in DOMAIN t : t[i].ev = "ui"}

\* GT511_RunEnroll returns in this step from the failure of GT511_FindAvailable
AllocationFails ==
    /\ api = "RunEnroll" /\ pc = "FindAvailable" /\ tpc = "returned"
    /\ status' = "returned"

\* IssueCommand is about to return an error from the enroll-start command
EnrollStartFails ==
    /\ api = "RunEnroll" /\ pc = "EnrollStart" /\ tpc = "returned"
    /\ result # GT511_ERR_NONE

\* C32: when GT511_FindAvailable fails in GT511_RunEnroll (a check-enrolled
\* command returned an error other than "not used", or every slot is in use), the
\* run returns that error after one notification, Error in mode Enroll, and has
\* sent only check-enrolled commands; when the enroll-start command fails, the run
\* returns its error with no notification and no illumination command sent.
C32_FailureBeforeLoop ==
    [][/\ AllocationFails
          => /\ ret' = (IF result = GT511_ERR_NONE THEN GT511_ERR_INVALID_POS ELSE result)
             /\ result = GT511_ERR_NONE => slot = GT511_NUM_SLOTS - 1
             /\ ret' # GT511_ERR_NONE
             /\ AllNotifications(trace')
                   = NotificationsIn(trace', GT511_MODE_ENROLL, GT511_UI_ERROR)
             /\ Cardinality(AllNotifications(trace')) = 1
             /\ Sends(trace') = SendsOf(trace', GT511_CMD_CHECK_ENROLLED)
       /\ EnrollStartFails
          => /\ status' = "returned" /\ ret' = result
             /\ AllNotifications(trace') = {}
             /\ SendsOf(trace', GT511_CMD_CMOS_LED) = {}
             /\ SendsOf(trace', GT511_CMD_CAPTURE_FINGER) = {}
             /\ Cardinality(SendsOf(trace', GT511_CMD_ENROLL_START)) = 1]_vars

\* C32's case: the check-enrolled command for the second slot failed and the
\* enrollment returned its error
C32_Witness ==
    /\ api = "RunEnroll" /\ status = "returned" /\ pc = "FindAvailable"
    /\ Cardinality(Sends(trace)) = 2
    /\ ret \notin {GT511_ERR_NONE, GT511_ERR_INVALID_POS}
    /\ Cardinality(AllNotifications(trace)) = 1

----------------------------------------------------------------------------
(* C33 *)

\* the identify command of GT511_RunIdentify is about to return after a valid ACK
IdentifySucceeded == api = "RunIdentify" /\ pc = "Identify" /\ ValidAckReturned

\* the positions at which GT511_RunIdentify returns after a failure at or before
\* its identify command
FailedByIdentify == {"LedOnFailOff", "PressFailOff", "CaptureFailOff", "IdentifyFailOff"}

\* the slot of the last check-enrolled command recorded in t
AllocatedSlot(t) == Parameter(t[Last(SendsOf(t, GT511_CMD_CHECK_ENROLLED))].frame)

\* C33: GT511_RunIdentify changes the caller's id only in the step in which the
\* identify command returns after a valid ACK, to the parameter of that ACK and
\* before the release wait starts; when it returns after a failed release wait it
\* returns an error with that id in the caller's storage, and when it returns
\* after a failure at or before the identify command the caller's storage is as
\* it was at the call.  GT511_RunEnroll, once its enroll-start command was sent,
\* does not change the caller's id, and when it returns an error the caller's
\* storage holds the slot of the last check-enrolled command.
C33_IdWrittenOnIdentifyAck ==
    [][/\ (IdentifySucceeded /\ pIdValid)
          => pId' = Parameter(mempool) /\ pc' = "WaitRelease"
       /\ (api = "RunIdentify" /\ pId' # pId) => IdentifySucceeded
       /\ (api = "RunIdentify" /\ status' = "returned" /\ pc' = "ReleaseFailOff")
          => /\ ret' # GT511_ERR_NONE
             /\ pIdValid => pId' # PidInit
       /\ (api = "RunIdentify" /\ status' = "returned" /\ pc' \in FailedByIdentify)
          => /\ ret' # GT511_ERR_NONE
             /\ pId' = PidInit
       /\ (api = "RunEnroll" /\ SendsOf(trace, GT511_CMD_ENROLL_START) # {})
          => pId' = pId
       /\ (api = "RunEnroll" /\ status' = "returned" /\ ret' # GT511_ERR_NONE
              /\ SendsOf(trace', GT511_CMD_ENROLL_START) # {})
          => pId' = AllocatedSlot(trace')]_vars

----------------------------------------------------------------------------
(* C34 *)

\* a workflow at position p with the record t returned after a wait in which the
\* query of the press state failed: the wait failed, and with Error, not Timeout
WaitQueryFailed(p, t) ==
    /\ p \in {"PressFailOff", "ReleaseFailOff"}
    /\ Notifications(t, GT511_UI_ERROR) # {}

\* C34: when a workflow returns, it has issued as many illumination-off commands
\* as illumination-on commands, but for the run in which the query of the press
\* state failed inside a wait, which has issued one illumination-off more (the
\* waiter's and then the workflow's); and the waiter issues its illumination-off
\* exactly when its query returned an error.
C34_IlluminationCounts ==
    [][/\ (api' \in Workflows /\ status' = "returned")
          => LET on == Cardinality(LedSends(trace', TRUE))
                 off == Cardinality(LedSends(trace', FALSE))
             IN  /\ off >= on
                 /\ off = on + (IF WaitQueryFailed(pc', trace') THEN 1 ELSE 0)
       /\ (api \in Workflows /\ wpc \in {"PressQuery", "ReleaseQuery"} /\ tpc = "returned")
          => ((result # GT511_ERR_NONE) <=> (wpc' \in {"PressLedOff", "ReleaseLedOff"}))
       /\ (api \in Workflows /\ wpc' \in {"PressLedOff", "ReleaseLedOff"} /\ wpc' # wpc)
          => /\ tpc' = "call" /\ command' = GT511_CMD_CMOS_LED /\ parm' = U32(0)
       /\ (api \in Workflows /\ wpc \in {"PressLedOff", "ReleaseLedOff"}
              /\ tpc = "returned")
          => /\ pc' \in {"PressFailOff", "ReleaseFailOff"}
             /\ tpc' = "call" /\ command' = GT511_CMD_CMOS_LED /\ parm' = U32(0)
             /\ Notifications(trace', GT511_UI_ERROR) # {}]_vars

\* C34's case: an enrollment returned after the query of the press state failed
\* in the release wait of its second step, with two illumination-on and three
\* illumination-off commands issued
C34_Witness ==
    /\ api = "RunEnroll" /\ status = "returned" /\ step = 1
    /\ WaitQueryFailed(pc, trace) /\ pc = "ReleaseFailOff"
    /\ Cardinality(LedSends(trace, TRUE)) = 2
    /\ Cardinality(LedSends(trace, FALSE)) = 3

=============================================================================
